---- MODULE Spec2Model ----
(***************************************************************************)
(* Six independent Streamlit dashboard scripts (adj.py, saving_fdr.py,     *)
(* test_02.py .. test_05.py).  A session runs one script; every page       *)
(* render executes the script top to bottom: load (possibly memoized by    *)
(* st.cache_data), clean, aggregate, show.                                 *)
(*                                                                         *)
(* Cells of the source file are tagged records: a parseable number, a      *)
(* non-numeric text, or an empty cell (NaN).  Floating point results are   *)
(* exact rationals n/d tagged "fin", or the IEEE specials "nan"/"inf"/     *)
(* "ninf" that numpy division yields.  adj.py amounts are counted in       *)
(* thousandths so that .round(2) is a real conversion.                     *)
(***************************************************************************)
EXTENDS Integers, Sequences, FiniteSets, TLC

VARIABLES
  script,   \* the script this session runs
  file,     \* the source file on disk
  cache,    \* the st.cache_data entry of load_data
  reads,    \* how often the source file was read from disk
  renders,  \* the number of render passes so far
  sel,      \* the sidebar selection (test_03.py)
  frame,    \* what load_data gave the last render pass
  out,      \* what the last render pass showed
  first,    \* the frame, the selection and the page of the first pass
  disk      \* the file as load_data last read it, and as the last pass found it

vars == <<script, file, cache, reads, renders, sel, frame, out, first, disk>>

(* ---------------- bounds of the model ---------------- *)
MaxRows == 3
MaxRenders == 3
\* stand-in for the top-N cuts of the scripts (10, 15, 20, 25 in the source)
TopN == 2

(* ---------------- cells and floats ---------------- *)
Num(v) == [k |-> "num", v |-> v]
Text == [k |-> "text", v |-> 0]
NaN == [k |-> "nan", v |-> 0]

Fin(n, d) == [k |-> "fin", n |-> n, d |-> d]
FNaN == [k |-> "nan", n |-> 0, d |-> 1]
FInf == [k |-> "inf", n |-> 0, d |-> 1]
FNegInf == [k |-> "ninf", n |-> 0, d |-> 1]
FZero == Fin(0, 1)

IsFin(f) == f.k = "fin"
FEq(f, g) == IsFin(f) /\ IsFin(g) /\ f.n * g.d = g.n * f.d
FLe(f, g) == IsFin(f) /\ IsFin(g) /\ f.n * g.d <= g.n * f.d
FLt(f, g) == IsFin(f) /\ IsFin(g) /\ f.n * g.d < g.n * f.d
InUnit(f) == FLe(FZero, f) /\ FLe(f, Fin(1, 1))

Min(a, b) == IF a <= b THEN a ELSE b
Max(a, b) == IF a >= b THEN a ELSE b

\* pd.to_numeric(errors='coerce'): what cannot be parsed becomes NaN
to_numeric(c) == IF c.k = "num" THEN c ELSE NaN

\* a negative sentinel as the fill value
fillna_sentinel(c, x) == IF c.k = "nan" THEN Num(-1) ELSE c

\* the fill forgotten: the cell stays missing
fillna_forgotten(c, x) == c

\* Series.fillna(x) on a numeric cell
fillna(c, x) == IF c.k = "nan" THEN Num(x) ELSE c

\* numpy true division of two scalars: x/0 is inf, -inf or nan, never raises
np_div(x, y) ==
  IF y = 0
    THEN (IF x > 0 THEN FInf ELSE IF x < 0 THEN FNegInf ELSE FNaN)
    ELSE (IF y > 0 THEN Fin(x, y) ELSE Fin(-x, -y))

\* round half to even of x/m to an integer (numpy .round), m > 0
RoundHalfEven(x, m) ==
  LET q == x \div m
      r == x % m
  IN  IF 2 * r < m THEN q
      ELSE IF 2 * r > m THEN q + 1
      ELSE IF q % 2 = 0 THEN q ELSE q + 1

\* Series.round(0) of a float
round0(f) == IF IsFin(f) THEN Fin(RoundHalfEven(f.n, f.d), 1) ELSE f

(* ---------------- sequences of rows ---------------- *)
SeqsUpTo(S, n) == UNION {[1..m -> S] : m \in 0..n}

\* Series.sum() of a column of integers
RECURSIVE Sum(_)
Sum(s) == IF s = <<>> THEN 0 ELSE Head(s) + Sum(Tail(s))

\* df[c] of a frame of cleaned cells, as numbers
Col(s, c) == [i \in DOMAIN s |-> s[i][c].v]

\* table[c] of a grouped table, whose columns hold plain values
Series(s, c) == [i \in DOMAIN s |-> s[i][c]]

\* the rows of a group: boolean-mask selection df[df[key] == g]
RowsOf(s, key, g) == SelectSeq(s, LAMBDA r : r[key] = g)

Range(s) == {s[i] : i \in DOMAIN s}

\* order of the grouping keys as the sort of groupby (sort=True) sees them
KeyRank(key) ==
  CASE key = "0" -> 0 [] key = "A" -> 1 [] key = "B" -> 2 [] key = "C" -> 3
    [] OTHER -> 4

\* the distinct non-missing keys of a column, ascending: groupby drops
\* missing keys (dropna=True) and sorts the groups
RECURSIVE SortedKeys(_)
SortedKeys(K) ==
  IF K = {} THEN <<>>
  ELSE LET m == CHOOSE x \in K : \A y \in K : KeyRank(x) <= KeyRank(y)
       IN  <<m>> \o SortedKeys(K \ {m})

\* the grouping with the missing key kept as a group of its own
\* (groupby(.., dropna=False))
GroupKeys_keepna(rows, key) ==
  SortedKeys({rows[i][key] : i \in DOMAIN rows})

GroupKeys(rows, key) ==
  SortedKeys({rows[i][key] : i \in DOMAIN rows} \ {""})

\* the orderings of s that are sorted by the column by (the values of the
\* rows of s, in row order); the order among equal values is
\* whatever the sort implementation gives (DataFrame.sort_values, quicksort)
RECURSIVE PermsOf(_)
PermsOf(S) ==
  IF S = {} THEN {<<>>}
  ELSE UNION {{Append(p, x) : p \in PermsOf(S \ {x})} : x \in S}

PermTable == [n \in 0..(MaxRows + 1) |-> PermsOf(1..n)]

Perms(n) == PermTable[n]

sort_values(s, by, ascending) ==
  {[i \in DOMAIN s |-> s[p[i]]] : p \in
     {q \in Perms(Len(s)) : \A i \in 1..(Len(s) - 1) :
        IF ascending THEN by[q[i]] <= by[q[i + 1]]
                     ELSE by[q[i]] >= by[q[i + 1]]}}

\* the cut forgotten: the whole frame is returned
head_uncut(s, n) == s

\* DataFrame.head(n)
head(s, n) == SubSeq(s, 1, Min(n, Len(s)))

\* DataFrame.nlargest(n, col), keep='first': descending, ties in row order
StableDesc(s, by) ==
  LET p == CHOOSE q \in Perms(Len(s)) :
             \A i \in 1..(Len(s) - 1) :
                \/ by[q[i]] > by[q[i + 1]]
                \/ by[q[i]] = by[q[i + 1]] /\ q[i] < q[i + 1]
  IN  [i \in DOMAIN s |-> s[p[i]]]

nlargest(s, n, by) == head(StableDesc(s, by), n)

(* ---------------- the file, the loader's result, the page ---------------- *)
\* the source file on disk: absent, or a header row and data rows
AbsentFile == [exists |-> FALSE, cols |-> {}, rows |-> <<>>]
PresentFile(cols, rows) == [exists |-> TRUE, cols |-> cols, rows |-> rows]

\* how a call of load_data ends: it returns a frame (ok), returns an empty
\* frame or None after st.error (not ok, returned), or leaves by an exception
\* or st.stop() (not returned).  err: st.error was called inside.
LoadResult(how, ok, err, cols, rows) ==
  [how |-> how, ok |-> ok, err |-> err, cols |-> cols, rows |-> rows]
Frame(cols, rows) == LoadResult("return", TRUE, FALSE, cols, rows)
\* st.error, then an empty DataFrame or None is returned
ErrorFrame == LoadResult("return", FALSE, TRUE, {}, <<>>)
\* an exception the script does not catch: Streamlit shows it and ends the run
Raised == LoadResult("raise", FALSE, TRUE, {}, <<>>)
\* st.error followed by st.stop() inside the loader
Stopped == LoadResult("stop", FALSE, TRUE, {}, <<>>)

\* before the first call
NoFrame == LoadResult("none", FALSE, FALSE, {}, <<>>)

NoCache == [hit |-> FALSE, val |-> NoFrame]

\* what one render pass shows: the kinds of elements drawn, whether an
\* inline error message was shown, whether the pass stopped before the end of
\* the script, and the values behind the KPI cards, charts and tables
NoView == [script |-> "none"]
Page(shown, error, halted, view) ==
  [shown |-> shown, error |-> error, halted |-> halted, view |-> view]
NoPage == Page({}, FALSE, FALSE, NoView)

(* ---------------- adj.py ---------------- *)
adj_columns ==
  {"Divisional", "Zone", "Regions", "Branch", "Number_Of_Member",
   "Adjustment_Principle_Amount", "Adjustment_Service_Charge",
   "Adjustment_Total"}

\* adj.py load_data: read_excel, positional rename to 8 names, to_numeric
\* with coercion, then fillna(0) on the whole frame (keys included)
adj_clean(r) ==
  [Divisional |-> IF r.Divisional = "" THEN "0" ELSE r.Divisional,
   Number_Of_Member |-> fillna(to_numeric(r.Number_Of_Member), 0),
   Adjustment_Total |-> fillna(to_numeric(r.Adjustment_Total), 0)]

adj_load_data(f) ==
  IF ~f.exists THEN Raised
  ELSE IF Cardinality(f.cols) # Cardinality(adj_columns) THEN Raised
  ELSE Frame(adj_columns, [i \in DOMAIN f.rows |-> adj_clean(f.rows[i])])


\* .round(2) of an amount counted in thousandths
adj_round2(x) == 10 * RoundHalfEven(x, 10)

\* one row of div_summary: groupby('Divisional').agg(sum).round(2), then
\* Avg_per_Member = (Adjustment_Total / Number_Of_Member).round(0)
adj_div_row(rows, g) ==
  LET grp == RowsOf(rows, "Divisional", g)
      members == Sum(Col(grp, "Number_Of_Member"))
      total == adj_round2(Sum(Col(grp, "Adjustment_Total")))
  IN  [Divisional |-> g, Number_Of_Member |-> members,
       Adjustment_Total |-> total,
       Avg_per_Member |-> round0(np_div(total, 1000 * members))]

adj_div_summary(rows) ==
  LET keys == GroupKeys(rows, "Divisional")
  IN  [i \in DOMAIN keys |-> adj_div_row(rows, keys[i])]

\* top20 = df.nlargest(20, 'Adjustment_Total')
adj_top20(rows) == nlargest(rows, TopN, Col(rows, "Adjustment_Total"))

\* the script body after load_data: totals, averages, summary, charts
adj_view(rows) ==
  [script |-> "adj",
   total_branches |-> Len(rows),
   total_members |-> Sum(Col(rows, "Number_Of_Member")),
   grand_total |-> Sum(Col(rows, "Adjustment_Total")),
   avg_per_member |->
     np_div(Sum(Col(rows, "Adjustment_Total")), 1000 * Sum(Col(rows, "Number_Of_Member"))),
   avg_per_branch |-> np_div(Sum(Col(rows, "Adjustment_Total")), 1000 * Len(rows)),
   div_summary |-> adj_div_summary(rows),
   top20 |-> adj_top20(rows)]

\* the page drawn from whatever load_data gave, an empty frame included
adj_page_unguarded(df) ==
  {Page({"title", "kpi", "chart"}, FALSE, FALSE, adj_view(df.rows))}

\* the page: an uncaught exception of load_data ends the run with its message
adj_page(df) ==
  IF ~df.ok THEN {Page({}, TRUE, TRUE, NoView)}
  ELSE {Page({"title", "kpi", "chart"}, FALSE, FALSE, adj_view(df.rows))}

(* ---------------- dates ---------------- *)
Date(d) == [k |-> "date", v |-> d]
BadDate == [k |-> "text", v |-> 0]
NoDate == [k |-> "nan", v |-> 0]

\* errors='ignore': what cannot be parsed is left as it is
to_datetime_ignore(c) == c

\* pd.to_datetime(errors='coerce'): what cannot be parsed becomes NaT
to_datetime_coerce(c) == IF c.k = "date" THEN c ELSE NoDate

(* ---------------- saving_fdr.py ---------------- *)
\* the column "FDR_Current Status" is written FDR_Current_Status
fdr_columns ==
  {"Deposited_Amount", "FDR_Opening_Date", "Mature_Date", "Zone",
   "FDR_Current_Status"}

\* the columns load_data indexes without checking that they exist
fdr_loader_columns == {"Deposited_Amount", "FDR_Opening_Date", "Mature_Date"}

\* saving_fdr.py load_data, lines 35-47: coerce the amount, drop the rows
\* with a missing amount or date, parse the dates, drop the rows again
fdr_coerce(r) ==
  [Zone |-> r.Zone,
   Deposited_Amount |-> to_numeric(r.Deposited_Amount),
   FDR_Opening_Date |-> r.FDR_Opening_Date,
   Mature_Date |-> r.Mature_Date]

fdr_parse_dates(r) ==
  [r EXCEPT !.FDR_Opening_Date = to_datetime_coerce(r.FDR_Opening_Date),
            !.Mature_Date = to_datetime_coerce(r.Mature_Date)]

fdr_dropna(rows, withAmount) ==
  SelectSeq(rows, LAMBDA r :
    /\ withAmount => r.Deposited_Amount.k # "nan"
    /\ r.FDR_Opening_Date.k # "nan"
    /\ r.Mature_Date.k # "nan")

fdr_clean(rows) ==
  LET coerced == [i \in DOMAIN rows |-> fdr_coerce(rows[i])]
      kept == fdr_dropna(coerced, TRUE)
      dated == [i \in DOMAIN kept |-> fdr_parse_dates(kept[i])]
  IN  fdr_dropna(dated, FALSE)

fdr_load_data(f) ==
  IF ~f.exists THEN ErrorFrame
  ELSE IF ~(fdr_loader_columns \subseteq f.cols) THEN Raised
  ELSE Frame(f.cols, fdr_clean(f.rows))


\* df_full.groupby('Zone')['Deposited_Amount'].sum().reset_index()
fdr_zone_sums(rows) ==
  LET keys == GroupKeys(rows, "Zone")
  IN  [i \in DOMAIN keys |->
        [Zone |-> keys[i],
         Deposited_Amount |-> Sum(Col(RowsOf(rows, "Zone", keys[i]), "Deposited_Amount"))]]

\* the days of D in ascending order
RECURSIVE SortedDays(_)
SortedDays(D) ==
  IF D = {} THEN <<>>
  ELSE LET m == CHOOSE x \in D : \A y \in D : x <= y
       IN  <<m>> \o SortedDays(D \ {m})

\* df_full.groupby('FDR_Opening_Date')['Deposited_Amount'].sum(), sorted by
\* date (lines 285-286)
fdr_daily(rows) ==
  LET days == SortedDays({rows[i].FDR_Opening_Date.v : i \in DOMAIN rows})
  IN  [i \in DOMAIN days |->
        [FDR_Opening_Date |-> days[i],
         Deposited_Amount |->
           Sum(Col(SelectSeq(rows, LAMBDA r : r.FDR_Opening_Date.v = days[i]),
                   "Deposited_Amount"))]]

\* num_days_forecast (line 312)
num_days_forecast == 30

\* LinearRegression().fit(X, y) on X = days since the first date (lines
\* 290-296): with n points, slope = Sxy / Sxx and the value predicted for
\* day x is (Sy * Sxx + Sxy * (n * x - Sx)) / (n * Sxx)
fdr_fit(daily) ==
  LET n == Len(daily)
      X == [i \in DOMAIN daily |->
              daily[i].FDR_Opening_Date - daily[1].FDR_Opening_Date]
      y == [i \in DOMAIN daily |-> daily[i].Deposited_Amount]
  IN  [n |-> n,
       Sx |-> Sum(X),
       Sy |-> Sum(y),
       Sxx |-> n * Sum([i \in DOMAIN X |-> X[i] * X[i]]) - Sum(X) * Sum(X),
       Sxy |-> n * Sum([i \in DOMAIN X |-> X[i] * y[i]]) - Sum(X) * Sum(y),
       last_day_index |-> X[n]]

\* the threshold is taken by its magnitude
fdr_trend_magnitude(m) ==
  IF 100 * m.n * m.Sxy > Max(m.Sy * m.Sxx, -(m.Sy * m.Sxx)) THEN "INCREASE"
  ELSE IF 100 * m.n * m.Sxy < -Max(m.Sy * m.Sxx, -(m.Sy * m.Sxx))
    THEN "DECREASE"
  ELSE "STABLE"

\* lines 297-307: slope against meaningful_threshold = y.mean() * 0.01;
\* slope = Sxy / Sxx and y.mean() = Sy / n with Sxx > 0 and n > 0
fdr_trend(m) ==
  IF 100 * m.n * m.Sxy > m.Sy * m.Sxx THEN "INCREASE"
  ELSE IF 100 * m.n * m.Sxy < -(m.Sy * m.Sxx) THEN "DECREASE"
  ELSE "STABLE"

\* model.predict of day x
fdr_predict(m, x) == Fin(m.Sy * m.Sxx + m.Sxy * (m.n * x - m.Sx), m.n * m.Sxx)

\* np.maximum(0, p)
np_maximum0(p) == IF FLt(p, FZero) THEN FZero ELSE p

\* the predictions are charted as the model gives them
fdr_prediction_raw(daily) ==
  LET m == fdr_fit(daily)
  IN  [i \in 1..num_days_forecast |->
        [FDR_Opening_Date |-> daily[Len(daily)].FDR_Opening_Date + i,
         Amount |-> fdr_predict(m, m.last_day_index + i)]]

\* df_prediction (lines 310-321): num_days_forecast points after the last day
fdr_prediction(daily) ==
  LET m == fdr_fit(daily)
  IN  [i \in 1..num_days_forecast |->
        [FDR_Opening_Date |-> daily[Len(daily)].FDR_Opening_Date + i,
         Amount |-> np_maximum0(fdr_predict(m, m.last_day_index + i))]]

\* the forecast section of a pass that did not reach it
NoForecast ==
  [drawn |-> FALSE, warning |-> FALSE, trend_analysis |-> "none",
   model |-> [n |-> 0, Sx |-> 0, Sy |-> 0, Sxx |-> 0, Sxy |-> 0,
              last_day_index |-> 0],
   df_prediction |-> <<>>]

\* the third section (lines 281-353): the forecast, or the warning when
\* df_daily has fewer than two rows
fdr_forecast(rows) ==
  LET df_daily == fdr_daily(rows)
  IN  IF Len(df_daily) > 1
        THEN [drawn |-> TRUE, warning |-> FALSE,
              trend_analysis |-> fdr_trend(fdr_fit(df_daily)),
              model |-> fdr_fit(df_daily),
              df_prediction |-> fdr_prediction(df_daily)]
        ELSE [drawn |-> FALSE, warning |-> TRUE, trend_analysis |-> "none",
              model |-> NoForecast.model, df_prediction |-> <<>>]

fdr_kpis(rows) ==
  [script |-> "saving_fdr",
   total_deposited_amount |-> Sum(Col(rows, "Deposited_Amount")),
   average_deposit |-> np_div(Sum(Col(rows, "Deposited_Amount")), Len(rows)),
   total_accounts |-> Len(rows),
   df_zone |-> <<>>,
   forecast |-> NoForecast]

\* the script body after load_data (lines 67-356)
fdr_page(df) ==
  IF ~df.ok THEN {Page({}, TRUE, TRUE, NoView)}
  ELSE IF df.rows = <<>> THEN {Page({}, FALSE, TRUE, NoView)}
  ELSE IF "FDR_Current_Status" \notin df.cols
    THEN {Page({"title"}, TRUE, TRUE, NoView)}
  ELSE IF "Zone" \notin df.cols
    THEN {Page({"title", "kpi"}, TRUE, TRUE, fdr_kpis(df.rows))}
  ELSE {Page({"title", "kpi", "chart"}, FALSE, FALSE,
             [fdr_kpis(df.rows) EXCEPT
                !.df_zone = z, !.forecast = fdr_forecast(df.rows)]) :
          z \in sort_values(fdr_zone_sums(df.rows),
                            Series(fdr_zone_sums(df.rows), "Deposited_Amount"),
                            TRUE)}

(* ---------------- test_02.py ---------------- *)
t02_columns ==
  {"Disbursment_Date", "Loan_Amount", "Zone_Office", "Borrower_Age",
   "Sc_Rate", "BorrowerCode", "Divisional_Office"}

\* the columns load_data indexes inside its try block
t02_loader_columns ==
  {"Disbursment_Date", "Loan_Amount", "Borrower_Age", "Sc_Rate"}

\* pd.cut(.., bins=[18, 25, 35, 45, 55, 100], labels=.., right=False), lines
\* 76-78: left-closed bins; an age outside [18, 100) gets no group ("")
t02_age_group(age) ==
  IF age < 18 THEN ""
  ELSE IF age < 25 THEN "18-24"
  ELSE IF age < 35 THEN "25-34"
  ELSE IF age < 45 THEN "35-44"
  ELSE IF age < 55 THEN "45-54"
  ELSE IF age < 100 THEN "55+"
  ELSE ""

\* test_02.py load_data, lines 60-78: pd.to_datetime without coercion raises
\* on a value it cannot parse; amounts, rates and ages are coerced and
\* filled with 0, and the age is binned
t02_clean(r) ==
  [Zone_Office |-> r.Zone_Office,
   Disbursment_Date |-> r.Disbursment_Date,
   Loan_Amount |-> fillna(to_numeric(r.Loan_Amount), 0),
   Sc_Rate |-> fillna(to_numeric(r.Sc_Rate), 0),
   Borrower_Age |-> fillna(to_numeric(r.Borrower_Age), 0),
   Age_Group |-> t02_age_group(fillna(to_numeric(r.Borrower_Age), 0).v),
   BorrowerCode |-> r.BorrowerCode,
   Divisional_Office |-> r.Divisional_Office]

t02_load_data(f) ==
  IF ~f.exists THEN Stopped
  ELSE IF ~(t02_loader_columns \subseteq f.cols) THEN Stopped
  ELSE IF \E i \in DOMAIN f.rows : f.rows[i].Disbursment_Date.k = "text"
    THEN Stopped
  ELSE Frame(f.cols, [i \in DOMAIN f.rows |-> t02_clean(f.rows[i])])


t02_zone_sums(rows) ==
  LET keys == GroupKeys(rows, "Zone_Office")
  IN  [i \in DOMAIN keys |->
        [Zone_Office |-> keys[i],
         Loan_Amount |-> Sum(Col(RowsOf(rows, "Zone_Office", keys[i]), "Loan_Amount"))]]

\* groupby('Zone_Office')['Loan_Amount'].sum().reset_index().nlargest(25, ..)
t02_zone_summary(rows) ==
  nlargest(t02_zone_sums(rows), TopN,
           Series(t02_zone_sums(rows), "Loan_Amount"))

\* groupby(['BorrowerCode', 'Divisional_Office'])['Loan_Amount'].sum()
\* (line 264): one row per code and office that occur together, sorted by
\* code and then by office; a row that lacks either key is in no group
top_borrowers_overall(rows) ==
  LET codes == GroupKeys(rows, "BorrowerCode")
      of_code(c) ==
        LET mine == RowsOf(rows, "BorrowerCode", c)
            offices == GroupKeys(mine, "Divisional_Office")
        IN  [j \in DOMAIN offices |->
              [BorrowerCode |-> c,
               Divisional_Office |-> offices[j],
               Loan_Amount |->
                 Sum(Col(RowsOf(mine, "Divisional_Office", offices[j]),
                         "Loan_Amount"))]]
      RECURSIVE cat(_)
      cat(i) == IF i > Len(codes) THEN <<>> ELSE of_code(codes[i]) \o cat(i + 1)
  IN  cat(1)

\* top_borrowers_overall.groupby('BorrowerCode')['Loan_Amount'].sum()
\* .nlargest(25).index.tolist()  (line 267)
top_25_codes(overall) ==
  LET codes == GroupKeys(overall, "BorrowerCode")
      totals == [i \in DOMAIN codes |->
                   [BorrowerCode |-> codes[i],
                    Loan_Amount |->
                      Sum([j \in DOMAIN overall |->
                                IF overall[j].BorrowerCode = codes[i]
                                  THEN overall[j].Loan_Amount ELSE 0])]]
      top == nlargest(totals, TopN, Series(totals, "Loan_Amount"))
  IN  [i \in DOMAIN top |-> top[i].BorrowerCode]

\* top_borrowers_overall[..['BorrowerCode'].isin(top_25_codes)]  (line 268)
df_top_25_office(overall) ==
  SelectSeq(overall,
            LAMBDA r : r.BorrowerCode \in Range(top_25_codes(overall)))

\* groupby(['BorrowerCode', 'Borrower_Age']).agg(Total_Loan_Amount=
\* ('Loan_Amount', 'sum')).reset_index().nlargest(25, 'Total_Loan_Amount')
\* (lines 285-287): one group per code and age that occur together
top_members(rows) ==
  LET codes == GroupKeys(rows, "BorrowerCode")
      of_code(c) ==
        LET mine == RowsOf(rows, "BorrowerCode", c)
            ages == SortedDays({mine[i].Borrower_Age.v : i \in DOMAIN mine})
        IN  [j \in DOMAIN ages |->
              [BorrowerCode |-> c,
               Borrower_Age |-> ages[j],
               Total_Loan_Amount |->
                 Sum(Col(SelectSeq(mine,
                                   LAMBDA r : r.Borrower_Age.v = ages[j]),
                         "Loan_Amount"))]]
      RECURSIVE cat(_)
      cat(i) == IF i > Len(codes) THEN <<>> ELSE of_code(codes[i]) \o cat(i + 1)
      groups == cat(1)
  IN  nlargest(groups, TopN, Series(groups, "Total_Loan_Amount"))

\* the labels of the age bins, in the order of the categories
t02_age_labels == <<"18-24", "25-34", "35-44", "45-54", "55+">>

\* groupby('Age_Group')['Loan_Amount'].sum().reset_index() (line 309): one
\* row per category, empty ones with 0; a row without group is in none
age_summary(rows) ==
  [i \in DOMAIN t02_age_labels |->
     [Age_Group |-> t02_age_labels[i],
      Loan_Amount |->
        Sum(Col(RowsOf(rows, "Age_Group", t02_age_labels[i]), "Loan_Amount"))]]

\* df_selection[df_selection['Sc_Rate'] > 0].groupby('Sc_Rate')
\* ['Loan_Amount'].sum().reset_index()  (line 447)
rate_summary(rows) ==
  LET charged == SelectSeq(rows, LAMBDA r : r.Sc_Rate.v > 0)
      rates == SortedDays({charged[i].Sc_Rate.v : i \in DOMAIN charged})
  IN  [i \in DOMAIN rates |->
        [Sc_Rate |-> rates[i],
         Loan_Amount |->
           Sum(Col(SelectSeq(charged, LAMBDA r : r.Sc_Rate.v = rates[i]),
                   "Loan_Amount"))]]

t02_kpis(rows) ==
  [script |-> "test_02",
   total_loans |-> Len(rows),
   sum_loan_amount |-> Sum(Col(rows, "Loan_Amount")),
   rows |-> rows,
   top_25_codes |-> <<>>,
   df_top_25_office |-> <<>>,
   top_members |-> <<>>,
   age_summary |-> <<>>,
   zone_summary |-> <<>>,
   rate_summary |-> <<>>]

\* the charts of the borrower section (lines 264-309)
t02_borrowers(rows) ==
  [t02_kpis(rows) EXCEPT
     !.top_25_codes = top_25_codes(top_borrowers_overall(rows)),
     !.df_top_25_office = df_top_25_office(top_borrowers_overall(rows)),
     !.top_members = top_members(rows),
     !.age_summary = age_summary(rows)]

\* the script body after load_data (lines 88-497): a chart whose column is
\* absent ends the pass (Divisional_Office at line 178, BorrowerCode at
\* line 243, Zone_Office at line 345)
t02_page(df) ==
  IF ~df.ok THEN {Page({}, TRUE, TRUE, NoView)}
  ELSE IF "Divisional_Office" \notin df.cols
    THEN {Page({"title", "kpi"}, TRUE, TRUE, t02_kpis(df.rows))}
  ELSE IF "BorrowerCode" \notin df.cols
    THEN {Page({"title", "kpi", "chart"}, TRUE, TRUE, t02_kpis(df.rows))}
  ELSE IF "Zone_Office" \notin df.cols
    THEN {Page({"title", "kpi", "chart"}, TRUE, TRUE,
               t02_borrowers(df.rows))}
  ELSE {Page({"title", "kpi", "chart"}, FALSE, FALSE,
             [t02_borrowers(df.rows) EXCEPT
                !.zone_summary = t02_zone_summary(df.rows),
                !.rate_summary = rate_summary(df.rows)])}

(* ---------------- test_03.py ---------------- *)
\* the columns "SEP_2025_ Month_Loan" and "Branch Name" are written
\* SEP_2025_Month_Loan and Branch_Name
t03_columns ==
  {"Domain", "Zone", "Region", "Branch_Name", "No_of_Members",
   "SEP_2025_Month_Loan", "Total_Outstanding", "Total_Overdue"}

\* the numeric columns load_data coerces, or creates when they are missing
t03_numeric_columns ==
  {"No_of_Members", "SEP_2025_Month_Loan", "Total_Outstanding",
   "Total_Overdue"}

\* the required_columns list checked after the load (lines 124-130)
t03_required_columns == t03_columns

\* test_03.py load_data, lines 99-108: a present column is coerced and
\* filled with 0, a missing column is created filled with zeros
t03_cell(f, col, c) ==
  IF col \in f.cols THEN fillna(to_numeric(c), 0) ELSE Num(0)

t03_clean(f, r) ==
  [Domain |-> r.Domain, Zone |-> r.Zone, Branch_Name |-> r.Branch_Name,
   No_of_Members |-> t03_cell(f, "No_of_Members", r.No_of_Members),
   SEP_2025_Month_Loan |-> t03_cell(f, "SEP_2025_Month_Loan", r.SEP_2025_Month_Loan),
   Total_Outstanding |-> t03_cell(f, "Total_Outstanding", r.Total_Outstanding),
   Total_Overdue |-> t03_cell(f, "Total_Overdue", r.Total_Overdue)]

t03_load_data(f) ==
  IF ~f.exists THEN ErrorFrame
  ELSE Frame(f.cols \cup t03_numeric_columns,
             [i \in DOMAIN f.rows |-> t03_clean(f, f.rows[i])])


\* x / y if y > 0 else 0  (lines 145, 193, 819)
t03_guarded(x, y) == IF y > 0 THEN Fin(x, y) ELSE FZero

\* (overdue / outstanding) * 100 if outstanding > 0 else 0  (lines 146, 161)
t03_overdue_ratio(overdue, outstanding) ==
  IF outstanding > 0 THEN Fin(100 * overdue, outstanding) ELSE FZero

\* the two masks joined by | instead of &
t03_filter_either(rows, selected) ==
  SelectSeq(rows, LAMBDA r :
    r.Domain \in selected.domains \/ r.Zone \in selected.zones)

\* filtered_df = df[df.Domain.isin(selected_domain) & df.Zone.isin(selected_zone)]
t03_filter(rows, selected) ==
  SelectSeq(rows, LAMBDA r :
    r.Domain \in selected.domains /\ r.Zone \in selected.zones)

\* the sums taken over the whole frame instead of the group
t03_zone_row_ungrouped(rows, g) ==
  [Zone |-> g,
   No_of_Members |-> Sum(Col(rows, "No_of_Members")),
   SEP_2025_Month_Loan |-> Sum(Col(rows, "SEP_2025_Month_Loan")),
   Total_Overdue |-> Sum(Col(rows, "Total_Overdue")),
   Total_Outstanding |-> Sum(Col(rows, "Total_Outstanding")),
   Overdue_Ratio |-> t03_overdue_ratio(Sum(Col(rows, "Total_Overdue")),
                                       Sum(Col(rows, "Total_Outstanding")))]

\* zone_summary = filtered_df.groupby("Zone").agg(sum) with Overdue_Ratio
t03_zone_row(rows, g) ==
  LET grp == RowsOf(rows, "Zone", g)
  IN  [Zone |-> g,
       No_of_Members |-> Sum(Col(grp, "No_of_Members")),
       SEP_2025_Month_Loan |-> Sum(Col(grp, "SEP_2025_Month_Loan")),
       Total_Overdue |-> Sum(Col(grp, "Total_Overdue")),
       Total_Outstanding |-> Sum(Col(grp, "Total_Outstanding")),
       Overdue_Ratio |-> t03_overdue_ratio(Sum(Col(grp, "Total_Overdue")),
                                           Sum(Col(grp, "Total_Outstanding")))]

t03_zone_summary(rows) ==
  LET keys == GroupKeys(rows, "Zone")
  IN  [i \in DOMAIN keys |-> t03_zone_row(rows, keys[i])]

\* zone_risk_filtered = filtered_df.groupby("Zone").agg(sums), with
\* Overdue_Ratio added by the guarded lambda (lines 196-197)
t03_zone_risk(rows) ==
  LET keys == GroupKeys(rows, "Zone")
  IN  [i \in DOMAIN keys |->
        LET grp == RowsOf(rows, "Zone", keys[i])
            overdue == Sum(Col(grp, "Total_Overdue"))
            outstanding == Sum(Col(grp, "Total_Outstanding"))
        IN  [Zone |-> keys[i], Total_Overdue |-> overdue,
             Total_Outstanding |-> outstanding,
             Overdue_Ratio |-> t03_overdue_ratio(overdue, outstanding)]]

\* the x100 left out: the ratio of the chart as a fraction
t03_zone_overdue_fraction(rows) ==
  LET keys == GroupKeys(rows, "Zone")
  IN  [i \in DOMAIN keys |->
        LET grp == RowsOf(rows, "Zone", keys[i])
            overdue == Sum(Col(grp, "Total_Overdue"))
            outstanding == Sum(Col(grp, "Total_Outstanding"))
        IN  [Zone |-> keys[i], Total_Outstanding |-> outstanding,
             Total_Overdue |-> overdue,
             Overdue_Ratio |-> t03_guarded(overdue, outstanding)]]

\* zone_overdue_ratio of the "Top 15 Zones by Overdue Ratio" chart
\* (lines 720-729), before its cut to the 15 largest
t03_zone_overdue_ratio(rows) ==
  LET keys == GroupKeys(rows, "Zone")
  IN  [i \in DOMAIN keys |->
        LET grp == RowsOf(rows, "Zone", keys[i])
            overdue == Sum(Col(grp, "Total_Overdue"))
            outstanding == Sum(Col(grp, "Total_Outstanding"))
        IN  [Zone |-> keys[i], Total_Outstanding |-> outstanding,
             Total_Overdue |-> overdue,
             Overdue_Ratio |-> t03_overdue_ratio(overdue, outstanding)]]

\* the threshold taken inclusively: Overdue_Ratio >= 10
t03_high_risk_zones_inclusive(rows) ==
  Len(SelectSeq(t03_zone_risk(rows),
                LAMBDA z : FLe(Fin(10, 1), z.Overdue_Ratio)))

\* len(zone_risk[zone_risk["Overdue_Ratio"] > 10])
t03_high_risk_zones(rows) ==
  Len(SelectSeq(t03_zone_risk(rows),
                LAMBDA z : FLt(Fin(10, 1), z.Overdue_Ratio)))

\* groupby("Zone")[loan].sum().idxmax(): the first zone with the largest sum
t03_top_zone_loan(rows) ==
  LET zs == t03_zone_summary(rows)
      i == CHOOSE a \in DOMAIN zs :
             /\ \A b \in DOMAIN zs : zs[b].SEP_2025_Month_Loan <= zs[a].SEP_2025_Month_Loan
             /\ \A b \in 1..(a - 1) : zs[b].SEP_2025_Month_Loan < zs[a].SEP_2025_Month_Loan
  IN  zs[i].Zone

\* groupby("Branch_Name")[loan].first(): the first amount of a branch, no sum
t03_branch_first(rows) ==
  LET keys == GroupKeys(rows, "Branch_Name")
  IN  [i \in DOMAIN keys |->
        [Branch_Name |-> keys[i],
         SEP_2025_Month_Loan |-> Col(RowsOf(rows, "Branch_Name", keys[i]), "SEP_2025_Month_Loan")[1]]]

\* branch_loan_ranking = filtered_df.groupby("Branch_Name")[loan].sum()
t03_branch_sums(rows) ==
  LET keys == GroupKeys(rows, "Branch_Name")
  IN  [i \in DOMAIN keys |->
        [Branch_Name |-> keys[i],
         SEP_2025_Month_Loan |-> Sum(Col(RowsOf(rows, "Branch_Name", keys[i]), "SEP_2025_Month_Loan"))]]

\* ranking.nlargest(25, col).sort_values(col, ascending=True)
t03_top_n(ranking, n) ==
  LET top == nlargest(ranking, n, Series(ranking, "SEP_2025_Month_Loan"))
  IN  sort_values(top, Series(top, "SEP_2025_Month_Loan"), TRUE)

t03_top_25(ranking) == t03_top_n(ranking, TopN)

t03_kpis(rows) ==
  IF rows # <<>>
    THEN [script |-> "test_03",
          filtered_df |-> rows,
          total_members |-> Sum(Col(rows, "No_of_Members")),
          total_loan_month |-> Sum(Col(rows, "SEP_2025_Month_Loan")),
          total_outstanding |-> Sum(Col(rows, "Total_Outstanding")),
          total_overdue |-> Sum(Col(rows, "Total_Overdue")),
          avg_loan_per_member |->
            t03_guarded(Sum(Col(rows, "SEP_2025_Month_Loan")), Sum(Col(rows, "No_of_Members"))),
          avg_overdue_ratio |->
            t03_overdue_ratio(Sum(Col(rows, "Total_Overdue")),
                              Sum(Col(rows, "Total_Outstanding"))),
          high_risk_zones |-> t03_high_risk_zones(rows),
          top_zone_loan |-> t03_top_zone_loan(rows),
          zone_risk |-> t03_zone_risk(rows),
          zone_overdue_ratio |-> t03_zone_overdue_ratio(rows),
          zone_summary |-> t03_zone_summary(rows),
          top_25_branches |-> <<>>]
    ELSE [script |-> "test_03",
          filtered_df |-> rows,
          total_members |-> 0, total_loan_month |-> 0,
          total_outstanding |-> 0, total_overdue |-> 0,
          avg_loan_per_member |-> FZero, avg_overdue_ratio |-> FZero,
          high_risk_zones |-> 0, top_zone_loan |-> "N/A",
          zone_risk |-> <<>>, zone_overdue_ratio |-> <<>>,
          zone_summary |-> <<>>, top_25_branches |-> <<>>]

\* the script body after load_data (lines 118-920) under a filter selection;
\* idxmax over the zones of a selection whose rows all lack the Zone raises
\* (line 199), as it does at line 163 for the whole frame
t03_page(df, selected) ==
  IF ~df.ok THEN {Page({}, TRUE, TRUE, NoView)}
  ELSE IF ~(t03_required_columns \subseteq df.cols)
    THEN {Page({}, TRUE, TRUE, NoView)}
  ELSE IF GroupKeys(df.rows, "Zone") = <<>>
    THEN {Page({}, TRUE, TRUE, NoView)}
  ELSE LET rows == t03_filter(df.rows, selected)
       IN  IF rows # <<>> /\ GroupKeys(rows, "Zone") = <<>>
             THEN {Page({"title"}, TRUE, TRUE, NoView)}
             ELSE LET kpis == t03_kpis(rows)
                  IN  {Page({"title", "kpi", "chart", "table"}, FALSE, FALSE,
                            [kpis EXCEPT !.top_25_branches = t]) :
                         t \in t03_top_25(t03_branch_sums(rows))}

(* ---------------- test_04.py ---------------- *)
t04_columns ==
  {"Disbursment_Date", "Admission_Date", "Borrower_Age", "Loan_Amount",
   "Zone_Office"}

\* the columns load_data indexes inside its try block
t04_loader_columns == {"Disbursment_Date", "Admission_Date", "Borrower_Age"}

\* pd.cut(.., bins=[18, 25, 35, 45, 55, 100], labels=.., right=True,
\* include_lowest=True), lines 67-70: right-closed bins, the first one with
\* its left edge; an age outside [18, 100] gets no group ("")
t04_age_group(age) ==
  IF age < 18 THEN ""
  ELSE IF age <= 25 THEN "18-25"
  ELSE IF age <= 35 THEN "26-35"
  ELSE IF age <= 45 THEN "36-45"
  ELSE IF age <= 55 THEN "46-55"
  ELSE IF age <= 100 THEN "56+"
  ELSE ""

\* test_04.py load_data, lines 56-70: dates are coerced (the row is kept),
\* a numeric column is coerced and filled with 0 only if it is present, and
\* the age is binned
t04_clean(f, r) ==
  [Zone_Office |-> r.Zone_Office,
   Disbursment_Date |-> to_datetime_coerce(r.Disbursment_Date),
   Loan_Amount |-> IF "Loan_Amount" \in f.cols
                     THEN fillna(to_numeric(r.Loan_Amount), 0)
                     ELSE r.Loan_Amount,
   Borrower_Age |-> fillna(to_numeric(r.Borrower_Age), 0),
   Age_Group |-> t04_age_group(fillna(to_numeric(r.Borrower_Age), 0).v)]

t04_load_data(f) ==
  IF ~f.exists THEN ErrorFrame
  ELSE IF ~(t04_loader_columns \subseteq f.cols) THEN ErrorFrame
  ELSE Frame(f.cols, [i \in DOMAIN f.rows |-> t04_clean(f, f.rows[i])])


\* zone_sum = df.groupby('Zone_Office')['Loan_Amount'].sum().reset_index()
t04_zone_sum(rows) ==
  LET keys == GroupKeys(rows, "Zone_Office")
  IN  [i \in DOMAIN keys |->
        [Zone_Office |-> keys[i],
         Loan_Amount |-> Sum(Col(RowsOf(rows, "Zone_Office", keys[i]), "Loan_Amount"))]]

\* plot_bar: df_.sort_values(y, ascending=False).head(n_top) if n_top else
\* the whole sorted frame (n_top None or 0)
plot_bar(df_, n_top) ==
  LET sorted == sort_values(df_, Series(df_, "Loan_Amount"), FALSE)
  IN  IF n_top # 0 THEN {head(t, n_top) : t \in sorted} ELSE sorted

\* floor(log2(x)) for x >= 1
RECURSIVE Log2(_)
Log2(x) == IF x < 2 THEN 0 ELSE 1 + Log2(x \div 2)

\* 2^k mod m
RECURSIVE PowMod2(_, _)
PowMod2(k, m) == IF k = 0 THEN 1 % m ELSE (2 * PowMod2(k - 1, m)) % m

\* 2^k
RECURSIVE Pow2(_)
Pow2(k) == IF k = 0 THEN 1 ELSE 2 * Pow2(k - 1)

\* (x / 30) * 30 in float64 against x, for an integer x > 0: 1 when the two
\* roundings land above x, -1 when below, 0 when on x. The quotient is
\* rounded to 53 bits, which moves the product by 30*m - X for
\* X = x * 2^(56-a), a = floor(log2 x), m = round(X / 30); the product is
\* rounded to a multiple of 16 (of 32 when x < 1.875 * 2^a, and then always
\* back to X), ties going to X.
float64_div30_mul30(x) ==
  LET a == Log2(x)
      r == ((x % 30) * PowMod2(56 - a, 30)) % 30
  IN  IF 16 * x < 30 * Pow2(a) THEN 0
      ELSE IF r \in {16, 18, 20} THEN 1
      ELSE IF r \in {10, 12, 14} THEN -1
      ELSE 0

\* predicted_nov_amount > oct_loan_amount (lines 357-360), with
\* predicted_nov_amount = (oct_loan_amount / disbursing_days) * 30 in
\* float64: off 30 days the rounding is far below the difference of the two,
\* on 30 days the rounding alone decides
predicted_above(total, days) ==
  IF days # 30 THEN total * (30 - days) > 0
  ELSE IF total > 0 THEN float64_div30_mul30(total) = 1
  ELSE IF total < 0 THEN float64_div30_mul30(-total) = -1
  ELSE FALSE

\* the valid dates of the column, NaT skipped as min() and max() skip it
t04_dates(rows) ==
  {rows[i].Disbursment_Date.v :
     i \in {j \in DOMAIN rows : rows[j].Disbursment_Date.k = "date"}}

\* lines 348-361: the prediction values
t04_prediction(rows) ==
  LET oct_loan_amount == Sum(Col(rows, "Loan_Amount"))
      dates == t04_dates(rows)
      disbursing_days ==
        IF dates # {}
          THEN (CHOOSE d \in dates : \A e \in dates : e <= d)
                 - (CHOOSE d \in dates : \A e \in dates : d <= e) + 1
          ELSE 27
  IN  [drawn |-> TRUE,
       oct_loan_amount |-> oct_loan_amount,
       disbursing_days |-> disbursing_days,
       predicted_nov_amount |-> Fin(oct_loan_amount * 30, disbursing_days),
       change |-> IF predicted_above(oct_loan_amount, disbursing_days)
                    THEN "increase" ELSE "decrease"]

\* the prediction card of a pass that did not reach it
NoPrediction ==
  [drawn |-> FALSE, oct_loan_amount |-> 0, disbursing_days |-> 0,
   predicted_nov_amount |-> FZero, change |-> "none"]

t04_kpis(rows) ==
  [script |-> "test_04",
   total_loan |-> Sum(Col(rows, "Loan_Amount")),
   number_of_loans |-> Len(rows),
   avg_loan |-> np_div(Sum(Col(rows, "Loan_Amount")), Len(rows)),
   fig5 |-> <<>>,
   prediction |-> NoPrediction]

\* the script body: the title is drawn before load_data is called
t04_page(df) ==
  IF ~df.ok THEN {Page({"title"}, TRUE, TRUE, NoView)}
  ELSE IF df.rows = <<>> THEN {Page({"title"}, FALSE, TRUE, NoView)}
  ELSE IF "Loan_Amount" \notin df.cols
    THEN {Page({"title"}, TRUE, TRUE, NoView)}
  ELSE IF "Zone_Office" \notin df.cols
    THEN {Page({"title", "kpi", "chart"}, TRUE, TRUE, t04_kpis(df.rows))}
  ELSE {Page({"title", "kpi", "chart"}, FALSE, FALSE,
             [t04_kpis(df.rows) EXCEPT
                !.fig5 = t, !.prediction = t04_prediction(df.rows)]) :
          t \in plot_bar(t04_zone_sum(df.rows), TopN)}

(* ---------------- test_05.py ---------------- *)
\* cols_to_clean (lines 27-33)
t05_cols_to_clean ==
  {"New_Member_Admission_Oct", "Member_Cancellation_Oct",
   "Loan_Disbursement_Borrower_Oct", "Fully_Paid_Borrower_Oct",
   "Loan_Recoverable_Oct", "Loan_Recovered_Regular_Oct",
   "Loan_Recovered_Due_Oct", "New_Due_Amount_Oct", "Oct_Total Due",
   "Total_Due_Loanee", "Bad_Loan_365+", "Total_Outstanding",
   "Overdue_Loan_Outstanding", "Cummulative_Loan_Disbursement",
   "Cummulative_Loan_Collection"}

t05_columns == {"BranchName"} \cup t05_cols_to_clean

t05_cell(f, col, c) ==
  IF col \in f.cols THEN fillna(to_numeric(c), 0) ELSE Num(0)

\* a.div(b.replace(0, np.nan)).fillna(0).clip(upper=1)  (lines 47, 52, 56)
t05_ratio(a, b) ==
  LET q == IF b = 0 THEN FNaN ELSE np_div(a, b)
      filled == IF q.k = "nan" THEN FZero ELSE q
  IN  IF FLt(Fin(1, 1), filled) THEN Fin(1, 1) ELSE filled

\* the net growth column holds the admissions alone
t05_features_gross(r) ==
  [Net_Member_Growth_Oct |-> Num(r.New_Member_Admission_Oct.v),
   Overdue_Percent_Branch |->
     t05_ratio(r.Overdue_Loan_Outstanding.v, r.Total_Outstanding.v),
   Oct_Total_Due_Loanee_Combined |->
     Num(r["Oct_Total Due"].v + r.Total_Due_Loanee.v),
   Non_Overdue_Outstanding |->
     Num(r.Total_Outstanding.v - r.Overdue_Loan_Outstanding.v),
   Collection_Efficiency_Ratio |->
     t05_ratio(r.Cummulative_Loan_Collection.v,
               r.Cummulative_Loan_Disbursement.v),
   Bad_Loan_Conversion_Rate |->
     t05_ratio(r["Bad_Loan_365+"].v, r.Overdue_Loan_Outstanding.v)] @@ r

\* test_05.py load_data, lines 43-58: feature engineering on a cleaned row
t05_features(r) ==
  [Net_Member_Growth_Oct |->
     Num(r.New_Member_Admission_Oct.v - r.Member_Cancellation_Oct.v),
   Overdue_Percent_Branch |->
     t05_ratio(r.Overdue_Loan_Outstanding.v, r.Total_Outstanding.v),
   Oct_Total_Due_Loanee_Combined |->
     Num(r["Oct_Total Due"].v + r.Total_Due_Loanee.v),
   Non_Overdue_Outstanding |->
     Num(r.Total_Outstanding.v - r.Overdue_Loan_Outstanding.v),
   Collection_Efficiency_Ratio |->
     t05_ratio(r.Cummulative_Loan_Collection.v,
               r.Cummulative_Loan_Disbursement.v),
   Bad_Loan_Conversion_Rate |->
     t05_ratio(r["Bad_Loan_365+"].v, r.Overdue_Loan_Outstanding.v)] @@ r

\* test_05.py load_data, lines 35-58: cleaning and feature engineering
t05_clean(f, r) ==
  t05_features([c \in t05_cols_to_clean |-> t05_cell(f, c, r[c])]
               @@ [BranchName |-> r.BranchName])

t05_load_data(f) ==
  IF ~f.exists THEN Stopped
  ELSE Frame(f.cols \cup t05_cols_to_clean,
             [i \in DOMAIN f.rows |-> t05_clean(f, f.rows[i])])


\* calculate_kpis: x / total if total > 0 else 0  (lines 71-72)
t05_overall(x, total) == IF total > 0 THEN Fin(x, total) ELSE FZero

\* the unachieved portion is the plain difference, with no floor at zero
create_pie_chart_ratio_unfloored(rows, metric2, overall_sum) ==
  [Value |-> <<overall_sum - Sum(Col(rows, metric2)),
               Sum(Col(rows, metric2))>>,
   ratio |-> IF overall_sum > 0
               THEN Fin(Sum(Col(rows, metric2)), overall_sum) ELSE FZero]

\* create_pie_chart_ratio (lines 78-99): the two pie values, unachieved then
\* achieved, and the ratio of the title
create_pie_chart_ratio(rows, metric2, overall_sum) ==
  [Value |-> <<Max(0, overall_sum - Sum(Col(rows, metric2))),
               Sum(Col(rows, metric2))>>,
   ratio |-> IF overall_sum > 0
               THEN Fin(Sum(Col(rows, metric2)), overall_sum) ELSE FZero]

\* plot_outstanding_overdue_bar:
\* df.nlargest(n, 'Total_Outstanding').sort_values(.., ascending=False)
plot_outstanding_overdue_bar(rows, n) ==
  LET top == nlargest(rows, n, Col(rows, "Total_Outstanding"))
  IN  sort_values(top, Col(top, "Total_Outstanding"), FALSE)

\* top_n_df.melt(id_vars=['BranchName'], value_vars=[..]) (lines 106-111):
\* one row per branch row and value column, the first value column first
t05_melt(top_n_df) ==
  [i \in DOMAIN top_n_df |->
     [BranchName |-> top_n_df[i].BranchName,
      Outstanding_Type |-> "Non_Overdue_Outstanding",
      Amount |-> top_n_df[i].Non_Overdue_Outstanding.v]]
  \o
  [i \in DOMAIN top_n_df |->
     [BranchName |-> top_n_df[i].BranchName,
      Outstanding_Type |-> "Overdue_Loan_Outstanding",
      Amount |-> top_n_df[i].Overdue_Loan_Outstanding.v]]

\* the bad loans are not taken out of the overdue slice
plot_risk_composition_overlapping(rows) ==
  LET total_outstanding == Sum(Col(rows, "Total_Outstanding"))
      overdue_sum == Sum(Col(rows, "Overdue_Loan_Outstanding"))
      bad_loan == Sum(Col(rows, "Bad_Loan_365+"))
  IN  <<Max(0, total_outstanding - overdue_sum), Max(0, overdue_sum),
        Max(0, bad_loan)>>

\* plot_risk_composition_3d_pie (lines 280-302): the amounts of the healthy,
\* overdue (0-365 days) and bad loan (365+ days) slices
plot_risk_composition_3d_pie(rows) ==
  LET total_outstanding == Sum(Col(rows, "Total_Outstanding"))
      overdue_sum == Sum(Col(rows, "Overdue_Loan_Outstanding"))
      bad_loan == Sum(Col(rows, "Bad_Loan_365+"))
  IN  <<Max(0, total_outstanding - overdue_sum),
        Max(0, overdue_sum - bad_loan), Max(0, bad_loan)>>

\* calculate_kpis and the charts main() draws before the stacked bar chart
\* Series.abs()
Abs(x) == IF x < 0 THEN -x ELSE x

\* the columns of plot_df the member chart draws: the bars, the labels and
\* the negated cancellations (line 197)
t05_member_bars(r) ==
  [BranchName |-> r.BranchName,
   New_Member_Admission_Oct |-> r.New_Member_Admission_Oct.v,
   Member_Cancellation_Oct |-> r.Member_Cancellation_Oct.v,
   Net_Member_Growth_Oct |-> r.Net_Member_Growth_Oct.v,
   Abs_Net_Growth |-> Abs(r.Net_Member_Growth_Oct.v),
   Member_Cancellation_Oct_Negative |-> -r.Member_Cancellation_Oct.v]

\* the ranking by the signed growth instead of its absolute value
plot_member_activity_signed(rows, n) ==
  LET top == nlargest(rows, n, Col(rows, "Net_Member_Growth_Oct"))
      bars == [i \in DOMAIN top |-> t05_member_bars(top[i])]
  IN  sort_values(bars, Series(bars, "Net_Member_Growth_Oct"), TRUE)

\* plot_member_activity_diverging_bar, lines 190-197: the n rows with the
\* largest absolute net growth, sorted by the net growth, ascending
plot_member_activity_diverging_bar(rows, n) ==
  LET growth == Col(rows, "Net_Member_Growth_Oct")
      top == nlargest(rows, n, [i \in DOMAIN rows |-> Abs(growth[i])])
      bars == [i \in DOMAIN top |-> t05_member_bars(top[i])]
  IN  sort_values(bars, Series(bars, "Net_Member_Growth_Oct"), TRUE)

t05_kpis(rows) ==
  [script |-> "test_05",
   rows |-> rows,
   Total_Outstanding |-> Sum(Col(rows, "Total_Outstanding")),
   Overdue |-> Sum(Col(rows, "Overdue_Loan_Outstanding")),
   Overall_Overdue |->
     t05_overall(Sum(Col(rows, "Overdue_Loan_Outstanding")), Sum(Col(rows, "Total_Outstanding"))),
   Overall_Cash_Recovery_Rate |->
     t05_overall(Sum(Col(rows, "Loan_Recovered_Regular_Oct")),
                 Sum(Col(rows, "Loan_Recoverable_Oct"))),
   Net_Member_Growth |-> Sum(Col(rows, "Net_Member_Growth_Oct")),
   fig_loan_comp |->
     create_pie_chart_ratio(rows, "Fully_Paid_Borrower_Oct",
                            Sum(Col(rows, "Loan_Disbursement_Borrower_Oct"))),
   fig_recovery_pie |->
     create_pie_chart_ratio(rows, "Loan_Recovered_Regular_Oct",
                            Sum(Col(rows, "Loan_Recoverable_Oct"))),
   top_n_df |-> <<>>,
   melted_df |-> <<>>,
   fig_3d_pie |-> <<>>,
   fig_member_ranking |-> <<>>]

\* main(): the title is drawn before load_data is called
t05_page(df) ==
  IF ~df.ok THEN {Page({"title"}, TRUE, TRUE, NoView)}
  ELSE IF "BranchName" \notin df.cols
    THEN {Page({"title", "kpi", "chart"}, TRUE, TRUE, t05_kpis(df.rows))}
  ELSE LET kpis == [t05_kpis(df.rows) EXCEPT
                      !.fig_3d_pie = plot_risk_composition_3d_pie(df.rows)]
       IN  {Page({"title", "kpi", "chart", "table"}, FALSE, FALSE,
                 [kpis EXCEPT !.top_n_df = t, !.melted_df = t05_melt(t),
                              !.fig_member_ranking = m]) :
              t \in plot_outstanding_overdue_bar(df.rows, TopN),
              m \in plot_member_activity_diverging_bar(df.rows, TopN)}

(* ---------------- the source files a session may find ---------------- *)
Scripts == {"adj", "saving_fdr", "test_02", "test_03", "test_04", "test_05"}

adj_row(d, m, t) ==
  [Divisional |-> d, Number_Of_Member |-> m, Adjustment_Total |-> t]

adj_rows ==
  SeqsUpTo({adj_row(d, Num(2), Num(t)) :
            d \in {"A", "B"}, t \in {1000, 2000, 5}}, MaxRows)
  \cup
  SeqsUpTo({adj_row("A", Text, NaN), adj_row("A", Num(0), Num(-1000)),
            adj_row("", Num(2), Num(1000)), adj_row("A", Num(2), Text),
            adj_row("", Num(0), NaN)}, MaxRows)

fdr_row(z, a, o, m) ==
  [Zone |-> z, Deposited_Amount |-> a, FDR_Opening_Date |-> o,
   Mature_Date |-> m]

fdr_rows ==
  SeqsUpTo({fdr_row(z, a, Date(1), Date(9)) :
            z \in {"A", "B"}, a \in {Num(10), Num(20), Text}}, MaxRows)
  \cup
  SeqsUpTo({fdr_row("A", Num(10), Date(1), Date(9)),
            fdr_row("A", Num(20), Date(2), Date(9)),
            fdr_row("A", Num(10), BadDate, Date(9)),
            fdr_row("A", Num(10), Date(1), BadDate),
            fdr_row("A", NaN, NoDate, Date(9)),
            fdr_row("A", Num(-10), Date(1), Date(9))}, MaxRows)
  \cup
  SeqsUpTo({fdr_row("A", Num(40), Date(1), Date(9)),
            fdr_row("A", Num(10), Date(2), Date(9)),
            fdr_row("B", Num(10), Date(4), Date(9)),
            fdr_row("B", Num(-50), Date(1), Date(9)),
            fdr_row("A", Num(-50), Date(4), Date(9)),
            fdr_row("B", Num(0), Date(2), Date(9))}, MaxRows)

\* a loan of a borrower (code, age) by an office, at a service charge rate
t02_loan(code, age, office, rate, a) ==
  [Zone_Office |-> "A", Loan_Amount |-> a, Disbursment_Date |-> Date(1),
   Borrower_Age |-> age, Sc_Rate |-> rate, BorrowerCode |-> code,
   Divisional_Office |-> office]

t02_row(z, a, d) ==
  [t02_loan("A", Num(30), "A", Num(10), a) EXCEPT
     !.Zone_Office = z, !.Disbursment_Date = d]

\* the ages around the edges of the bins of test_02.py and test_04.py
EdgeAges ==
  {17, 18, 24, 25, 26, 34, 35, 36, 44, 45, 46, 54, 55, 56, 99, 100, 101}

t02_rows ==
  SeqsUpTo({t02_row(z, Num(a), Date(1)) :
            z \in {"A", "B", "C"}, a \in {10, 20}}, MaxRows)
  \cup
  SeqsUpTo({t02_row("A", Text, Date(1)), t02_row("A", NaN, Date(1)),
            t02_row("A", Num(-10), Date(1)), t02_row("A", Num(10), BadDate),
            t02_row("A", Num(10), Date(1)), t02_row("A", Num(10), NoDate)},
           MaxRows)
  \cup
  SeqsUpTo({t02_loan("A", Num(30), "A", Num(10), Num(10)),
            t02_loan("A", Num(30), "B", Num(12), Num(20)),
            t02_loan("A", Num(31), "A", Num(0), Num(20)),
            t02_loan("B", Num(60), "A", Text, Num(20)),
            t02_loan("C", NaN, "B", Num(12), Num(10)),
            t02_loan("B", Num(100), "A", Num(10), Num(30))}, MaxRows)
  \cup
  {<<t02_loan("A", Num(age), "A", Num(10), Num(10))>> : age \in EdgeAges}

t03_row(d, z, b, m, l, o, v) ==
  [Domain |-> d, Zone |-> z, Branch_Name |-> b, No_of_Members |-> m,
   SEP_2025_Month_Loan |-> l, Total_Outstanding |-> o, Total_Overdue |-> v]

\* branches A and B lie in zone A, branch C in zone B
t03_branch_row(b, l) ==
  t03_row("D1", IF b = "C" THEN "B" ELSE "A", b, Num(1), Num(l), Num(0), Num(0))

t03_risk_row(z, o, v) == t03_row("D1", z, z, Num(0), Num(0), Num(o), Num(v))

\* the dataset of the documented example: branch A [100, 200], branch B [50]
ExampleRows ==
  <<t03_branch_row("A", 100), t03_branch_row("A", 200), t03_branch_row("B", 50)>>

t03_rows ==
  SeqsUpTo({t03_branch_row("A", 100), t03_branch_row("A", 200),
            t03_branch_row("B", 50), t03_branch_row("C", 200),
            t03_branch_row("C", 50)}, MaxRows)
  \cup
  SeqsUpTo({t03_risk_row("A", 100, 10), t03_risk_row("A", 0, 5),
            t03_risk_row("A", 100, 200),
            t03_risk_row("B", 100, 10), t03_risk_row("B", 100, 20)}, MaxRows)
  \cup
  SeqsUpTo({t03_row("D1", "A", "A", Text, Num(10), o, Num(0)) :
            o \in {NaN, Num(-100), Num(100)}} \cup
           {t03_row("D1", "A", "A", Num(0), Num(10), Num(100), Num(0))}, MaxRows)
  \cup
  SeqsUpTo({t03_row(d, z, z, Num(1), Num(10), Num(100), Num(20)) :
            d \in {"D1", "D2"}, z \in {"A", "B"}} \
           {t03_row("D2", "B", "B", Num(1), Num(10), Num(100), Num(20))},
           MaxRows)
  \cup
  SeqsUpTo({t03_row("D1", "", "A", Num(1), Num(10), Num(100), Num(20)),
            t03_row("D1", "A", "A", Num(2), Num(20), Num(100), Num(5))},
           MaxRows)

\* a loan of a borrower of the given age
t04_loan(age, a) ==
  [Zone_Office |-> "A", Loan_Amount |-> a, Disbursment_Date |-> Date(1),
   Borrower_Age |-> age]

t04_row(z, a, d) ==
  [t04_loan(Num(30), a) EXCEPT !.Zone_Office = z, !.Disbursment_Date = d]

t04_rows ==
  SeqsUpTo({t04_row(z, Num(a), Date(1)) :
            z \in {"A", "B", "C"}, a \in {10, 20}}, MaxRows)
  \cup
  SeqsUpTo({t04_row("A", Text, Date(1)), t04_row("A", NaN, Date(1)),
            t04_row("A", Num(10), Date(1)), t04_row("A", Num(10), Date(3)),
            t04_row("A", Num(10), BadDate), t04_row("A", Num(20), NoDate)},
           MaxRows)
  \cup
  SeqsUpTo({t04_row("A", Num(31), Date(1)), t04_row("A", Num(0), Date(30)),
            t04_row("B", Num(-100), Date(31)), t04_row("B", Num(20), Date(1)),
            t04_row("B", Num(61), NoDate)}, MaxRows)
  \cup
  {<<t04_loan(Num(age), Num(10))>> : age \in EdgeAges}
  \cup
  {<<t04_loan(Text, Num(10))>>, <<t04_loan(NaN, Num(10))>>}

\* a branch row with every amount at zero
t05_blank == [c \in t05_cols_to_clean |-> Num(0)] @@ [BranchName |-> "A"]

t05_row(o, v) ==
  [Total_Outstanding |-> o, Overdue_Loan_Outstanding |-> v] @@ t05_blank

\* a branch with its portfolio (outstanding, overdue, bad loan), its loans
\* (disbursed, fully paid, recoverable, recovered) and its members
\* (admitted, cancelled, total due, due of loanees)
t05_branch(name, portfolio, loans, members) ==
  [BranchName |-> name,
   Total_Outstanding |-> Num(portfolio[1]),
   Overdue_Loan_Outstanding |-> Num(portfolio[2]),
   Loan_Disbursement_Borrower_Oct |-> Num(loans[1]),
   Fully_Paid_Borrower_Oct |-> Num(loans[2]),
   Loan_Recoverable_Oct |-> Num(loans[3]),
   Loan_Recovered_Regular_Oct |-> Num(loans[4]),
   New_Member_Admission_Oct |-> Num(members[1]),
   Member_Cancellation_Oct |-> Num(members[2]),
   Total_Due_Loanee |-> Num(members[4])]
  @@ [c \in {"Bad_Loan_365+"} |-> Num(portfolio[3])]
  @@ [c \in {"Oct_Total Due"} |-> Num(members[3])]
  @@ t05_blank

t05_rows ==
  SeqsUpTo({t05_row(Num(p[1]), Num(p[2])) :
            p \in {<<0, 0>>, <<100, 0>>, <<100, 50>>, <<200, 50>>,
                   <<100, 200>>}}, MaxRows)
  \cup
  SeqsUpTo({t05_row(Text, Num(0)), t05_row(NaN, Text), t05_row(Num(-100), Num(0)),
            t05_row(Num(100), Text), t05_row(Num(100), NaN)}, MaxRows)
  \cup
  SeqsUpTo({t05_branch("A", <<100, 50, 20>>, <<10, 4, 100, 60>>, <<5, 2, 10, 20>>),
            t05_branch("B", <<200, 50, 80>>, <<10, 12, 100, 160>>, <<2, 5, 0, 30>>),
            t05_branch("A", <<100, 200, 50>>, <<0, 3, 0, 0>>, <<0, 0, 0, 0>>),
            t05_branch("C", <<100, 50, -30>>, <<-10, 5, 50, 20>>, <<3, 3, 5, 5>>),
            t05_branch("C", <<300, 100, 100>>, <<5, 5, 60, 60>>, <<1, 0, 0, 0>>),
            [t05_branch("B", <<100, 50, 0>>, <<10, 0, 100, 50>>, <<4, 0, 0, 0>>)
               EXCEPT !["Bad_Loan_365+"] = Text,
                      !.Fully_Paid_Borrower_Oct = Text,
                      !.Member_Cancellation_Oct = NaN]},
           MaxRows)

ColumnsOf(s) ==
  CASE s = "adj" -> adj_columns
    [] s = "saving_fdr" -> fdr_columns
    [] s = "test_02" -> t02_columns
    [] s = "test_03" -> t03_columns
    [] s = "test_04" -> t04_columns
    [] s = "test_05" -> t05_columns

RowsFor(s) ==
  CASE s = "adj" -> adj_rows
    [] s = "saving_fdr" -> fdr_rows
    [] s = "test_02" -> t02_rows
    [] s = "test_03" -> t03_rows
    [] s = "test_04" -> t04_rows
    [] s = "test_05" -> t05_rows

\* the file is absent, complete, or lacks one column (with at most one row)
Files(s) ==
  {AbsentFile}
  \cup {PresentFile(ColumnsOf(s), rows) : rows \in RowsFor(s)}
  \cup {PresentFile(ColumnsOf(s) \ {c}, rows) :
          c \in ColumnsOf(s), rows \in {r \in RowsFor(s) : Len(r) <= 1}}

(* ---------------- one session ---------------- *)
\* which loaders carry the @st.cache_data decorator
load_is_cached(s) == s # "test_05"

\* the loader called afresh on every pass, whatever the cache holds
Call_fresh(s, loaded) == loaded

\* st.cache_data: on a hit the stored return value is replayed and the
\* function body, with its disk read, is skipped
Call(s, loaded) ==
  IF load_is_cached(s) /\ cache.hit THEN cache.val ELSE loaded

\* the pass pops the first row off the very frame the cache holds
Memo_shared(s, res) ==
  IF load_is_cached(s) /\ ~cache.hit /\ res.how = "return"
    THEN [hit |-> TRUE,
          val |-> [res EXCEPT !.rows = SubSeq(res.rows, 2, Len(res.rows))]]
    ELSE cache

\* only a normal return is stored; an exception or st.stop() stores nothing
Memo(s, res) ==
  IF load_is_cached(s) /\ ~cache.hit /\ res.how = "return"
    THEN [hit |-> TRUE, val |-> res]
    ELSE cache

\* the read placed outside the memoized function: every pass reads the file
DiskReads_uncached(s) == IF file.exists THEN reads + 1 ELSE reads

\* the file is read when load_data's body runs and the file is there
DiskReads(s) ==
  IF (load_is_cached(s) /\ cache.hit) \/ ~file.exists THEN reads ELSE reads + 1

NoSel == [set |-> FALSE, domains |-> {}, zones |-> {}]

\* the sidebar multiselects: every value is selected by default, afterwards
\* the user may pick any subset of the options
Selections(df) ==
  LET domains == {df.rows[i].Domain : i \in DOMAIN df.rows}
      zones == {df.rows[i].Zone : i \in DOMAIN df.rows}
  IN  IF sel.set
        THEN {[set |-> TRUE, domains |-> d, zones |-> z] :
                d \in SUBSET domains, z \in SUBSET zones}
        ELSE {[set |-> TRUE, domains |-> domains, zones |-> zones]}

\* nothing was read and no pass has looked for the file yet
NoDisk == [read |-> AbsentFile, seen |-> AbsentFile]

Init ==
  /\ script \in Scripts
  /\ file \in Files(script)
  /\ cache = NoCache
  /\ reads = 0
  /\ renders = 0
  /\ sel = NoSel
  /\ frame = NoFrame
  /\ out = NoPage
  /\ first = [frame |-> NoFrame, sel |-> NoSel, out |-> NoPage]
  /\ disk = NoDisk

Rendered(s, df) ==
  /\ frame' = df
  /\ cache' = Memo(s, df)
  /\ reads' = DiskReads(s)
  /\ renders' = renders + 1
  /\ disk' = [read |-> IF DiskReads(s) # reads THEN file ELSE disk.read,
               seen |-> file]
  /\ UNCHANGED <<script, file>>

\* sorting is a function of its input: a pass over the frame and the
\* selection of the first pass orders tied rows as the first pass did
Replay(pages, df, selected) ==
  {p \in pages :
     (renders > 0 /\ df = first.frame /\ selected = first.sel) => p = first.out}

\* the first pass of the session is remembered
Recorded ==
  first' = IF renders = 0
             THEN [frame |-> frame', sel |-> sel', out |-> out']
             ELSE first

Render_adj ==
  /\ script = "adj" /\ renders < MaxRenders
  /\ LET df == Call("adj", adj_load_data(file))
     IN  out' \in Replay(adj_page(df), df, sel) /\ Rendered("adj", df)
  /\ UNCHANGED sel
  /\ Recorded

Render_saving_fdr ==
  /\ script = "saving_fdr" /\ renders < MaxRenders
  /\ LET df == Call("saving_fdr", fdr_load_data(file))
     IN  out' \in Replay(fdr_page(df), df, sel) /\ Rendered("saving_fdr", df)
  /\ UNCHANGED sel
  /\ Recorded

Render_test_02 ==
  /\ script = "test_02" /\ renders < MaxRenders
  /\ LET df == Call("test_02", t02_load_data(file))
     IN  out' \in Replay(t02_page(df), df, sel) /\ Rendered("test_02", df)
  /\ UNCHANGED sel
  /\ Recorded

Render_test_03 ==
  /\ script = "test_03" /\ renders < MaxRenders
  /\ LET df == Call("test_03", t03_load_data(file))
         shown == /\ df.ok
                  /\ t03_required_columns \subseteq df.cols
                  /\ GroupKeys(df.rows, "Zone") # <<>>
     IN  /\ IF shown THEN sel' \in Selections(df) ELSE sel' = sel
         /\ out' \in Replay(t03_page(df, sel'), df, sel')
         /\ Rendered("test_03", df)
         /\ Recorded

Render_test_04 ==
  /\ script = "test_04" /\ renders < MaxRenders
  /\ LET df == Call("test_04", t04_load_data(file))
     IN  out' \in Replay(t04_page(df), df, sel) /\ Rendered("test_04", df)
  /\ UNCHANGED sel
  /\ Recorded

Render_test_05 ==
  /\ script = "test_05" /\ renders < MaxRenders
  /\ LET df == Call("test_05", t05_load_data(file))
     IN  out' \in Replay(t05_page(df), df, sel) /\ Rendered("test_05", df)
  /\ UNCHANGED sel
  /\ Recorded

Next ==
  \/ Render_adj
  \/ Render_saving_fdr
  \/ Render_test_02
  \/ Render_test_03
  \/ Render_test_04
  \/ Render_test_05

Spec == Init /\ [][Next]_vars

(* ---------------- a session whose source file changes ---------------- *)
\* two editions of the source file of a script, complete and well formed,
\* that differ in the amount of their one row
Editions(s) ==
  CASE s = "adj" -> {<<adj_row("A", Num(2), Num(t))>> : t \in {1000, 2000}}
    [] s = "saving_fdr" ->
         {<<fdr_row("A", Num(a), Date(1), Date(9))>> : a \in {10, 20}}
    [] s = "test_02" -> {<<t02_row("A", Num(a), Date(1))>> : a \in {10, 20}}
    [] s = "test_03" -> {<<t03_branch_row("A", l)>> : l \in {100, 200}}
    [] s = "test_04" -> {<<t04_row("A", Num(a), Date(1))>> : a \in {10, 20}}
    [] s = "test_05" -> {<<t05_row(Num(o), Num(0))>> : o \in {100, 200}}

\* the file under the name the script opens: absent, or one of the editions
Versions(s) ==
  {AbsentFile} \cup {PresentFile(ColumnsOf(s), rows) : rows \in Editions(s)}

InitFiles ==
  /\ script \in Scripts
  /\ file \in Versions(script)
  /\ cache = NoCache
  /\ reads = 0
  /\ renders = 0
  /\ sel = NoSel
  /\ frame = NoFrame
  /\ out = NoPage
  /\ first = [frame |-> NoFrame, sel |-> NoSel, out |-> NoPage]
  /\ disk = NoDisk

\* between two passes the file is removed, put in place or overwritten; the
\* scripts open it by a fixed name (pd.read_excel / pd.read_csv)
ReplaceFile ==
  /\ renders < MaxRenders
  /\ file' \in Versions(script) \ {file}
  /\ UNCHANGED <<script, cache, reads, renders, sel, frame, out, first, disk>>

NextFiles ==
  \/ Next
  \/ ReplaceFile

SpecFiles == InitFiles /\ [][NextFiles]_vars

(* ======================= properties ======================= *)
\* sum of f over the index set I
RECURSIVE SumFn(_, _)
SumFn(f, I) ==
  IF I = {} THEN 0
  ELSE LET i == CHOOSE x \in I : TRUE IN f[i] + SumFn(f, I \ {i})

\* the numeric columns each loader coerces
CoercedColumns(s) ==
  CASE s = "adj" -> {"Number_Of_Member", "Adjustment_Total"}
    [] s = "saving_fdr" -> {"Deposited_Amount"}
    [] s = "test_02" -> {"Loan_Amount"}
    [] s = "test_03" -> t03_numeric_columns
    [] s = "test_04" -> {"Loan_Amount"}
    [] s = "test_05" -> t05_cols_to_clean

\* the last pass loaded a frame
Loaded == renders > 0 /\ frame.ok

\* the cleaned cell is the parsed number, or zero where nothing parses
ZeroFilled(raw, clean) ==
  clean.k = "num" /\ clean.v = (IF raw.k = "num" THEN raw.v ELSE 0)

\* C1 as stated: in every script the cleaned frame keeps every row of the
\* file, and every cell of a coerced numeric column is the parsed number, or
\* zero where the cell was absent or unparseable.
C1_Original ==
  Loaded =>
    /\ Len(frame.rows) = Len(file.rows)
    /\ \A i \in DOMAIN frame.rows :
         \A c \in CoercedColumns(script) \cap file.cols :
           ZeroFilled(file.rows[i][c], frame.rows[i][c])

\* the rows of the FDR file that survive cleaning: amount and both dates parse
fdr_survivors ==
  SelectSeq(file.rows, LAMBDA r :
    /\ r.Deposited_Amount.k = "num"
    /\ r.FDR_Opening_Date.k = "date"
    /\ r.Mature_Date.k = "date")

\* C1 (amended): after the load no coerced numeric column has a missing
\* value; in adj.py and test_02..test_05 every row is kept and an absent or
\* unparseable cell becomes zero, while saving_fdr.py drops the row whose
\* Deposited_Amount is absent or unparseable (and keeps the others' amounts).
C1_Amended ==
  Loaded =>
    /\ \A i \in DOMAIN frame.rows :
         \A c \in CoercedColumns(script) \cap file.cols :
           frame.rows[i][c].k = "num"
    /\ script # "saving_fdr" =>
         /\ Len(frame.rows) = Len(file.rows)
         /\ \A i \in DOMAIN frame.rows :
              \A c \in CoercedColumns(script) \cap file.cols :
                ZeroFilled(file.rows[i][c], frame.rows[i][c])
    /\ script = "saving_fdr" =>
         /\ Len(frame.rows) = Len(fdr_survivors)
         /\ \A i \in DOMAIN frame.rows :
              /\ frame.rows[i].Deposited_Amount = fdr_survivors[i].Deposited_Amount
              /\ frame.rows[i].Zone = fdr_survivors[i].Zone

\* a file cell that does not parse was replaced by zero and its row kept
C1_Witness ==
  /\ Loaded
  /\ script # "saving_fdr"
  /\ \E i \in DOMAIN frame.rows :
       \E c \in CoercedColumns(script) \cap file.cols :
         file.rows[i][c].k # "num" /\ frame.rows[i][c] = Num(0)

\* a view of this script is on the page
Shown == renders > 0 /\ out.view.script = script

\* the rows the aggregations of the last pass ran over: the loaded frame,
\* in test_03.py narrowed by the sidebar selection
DataIdx ==
  IF script = "test_03"
    THEN {i \in DOMAIN frame.rows :
            /\ frame.rows[i].Domain \in sel.domains
            /\ frame.rows[i].Zone \in sel.zones}
    ELSE DOMAIN frame.rows

\* the sum of column c over the data rows whose column key equals g
GroupTotal(key, c, g) ==
  SumFn([i \in DOMAIN frame.rows |-> frame.rows[i][c].v],
        {i \in DataIdx : frame.rows[i][key] = g})

\* every row of the table carries the exact group sums of the columns cs
ExactGroups(table, key, cs) ==
  \A i \in DOMAIN table :
    \A c \in cs : table[i][c] = GroupTotal(key, c, table[i][key])

\* t is s rounded to two decimals, both counted in thousandths
RoundedTo2(t, s) == t % 10 = 0 /\ t - s <= 5 /\ s - t <= 5

\* the group tables other than adj.py's Adjustment_Total carry exact sums
C2_ExactElsewhere ==
  /\ script = "adj" =>
       ExactGroups(out.view.div_summary, "Divisional", {"Number_Of_Member"})
  /\ script = "saving_fdr" =>
       ExactGroups(out.view.df_zone, "Zone", {"Deposited_Amount"})
  /\ script = "test_02" =>
       ExactGroups(out.view.zone_summary, "Zone_Office", {"Loan_Amount"})
  /\ script = "test_03" =>
       ExactGroups(out.view.zone_summary, "Zone",
                   {"No_of_Members", "SEP_2025_Month_Loan", "Total_Overdue",
                    "Total_Outstanding"})
  /\ script = "test_04" =>
       ExactGroups(out.view.fig5, "Zone_Office", {"Loan_Amount"})

\* C2 as stated: every group's aggregated total of an amount column equals
\* the sum of that column over exactly the cleaned rows with the group's key.
C2_Original ==
  Shown =>
    /\ C2_ExactElsewhere
    /\ script = "adj" =>
         ExactGroups(out.view.div_summary, "Divisional", {"Adjustment_Total"})

\* C2 (amended): every group's total equals the sum over exactly the rows of
\* the group, except that adj.py's div_summary shows that sum rounded to two
\* decimals.
C2_Amended ==
  Shown =>
    /\ C2_ExactElsewhere
    /\ script = "adj" =>
         \A i \in DOMAIN out.view.div_summary :
           RoundedTo2(out.view.div_summary[i].Adjustment_Total,
                      GroupTotal("Divisional", "Adjustment_Total",
                                 out.view.div_summary[i].Divisional))

\* a division of two rows next to another division, its total rounded
C2_Witness ==
  /\ Shown
  /\ script = "adj"
  /\ Len(out.view.div_summary) = 2
  /\ \E i \in DOMAIN out.view.div_summary :
       LET g == out.view.div_summary[i]
       IN  /\ Cardinality({j \in DataIdx : frame.rows[j].Divisional = g.Divisional}) = 2
           /\ g.Adjustment_Total # GroupTotal("Divisional", "Adjustment_Total", g.Divisional)

\* a ratio of a whole: within [0,1] when numerator and denominator are not
\* negative, and zero when the denominator is zero
FractionOk(num, den, ratio) ==
  /\ (num >= 0 /\ den >= 0) => InUnit(ratio)
  /\ den = 0 => FEq(ratio, FZero)

\* the same for a ratio shown as a percentage (x100)
PercentOk(num, den, ratio) ==
  /\ (num >= 0 /\ den >= 0) => (FLe(FZero, ratio) /\ FLe(ratio, Fin(100, 1)))
  /\ den = 0 => FEq(ratio, FZero)

\* C3 as stated: every ratio of a whole (test_05.py per-branch and overall
\* overdue ratios, test_03.py overall and per-zone overdue ratios before the
\* x100) lies in [0,1] whenever numerator and denominator are non-negative,
\* and is 0 when the denominator is zero.
C3_Claim ==
  Shown =>
    /\ script = "test_05" =>
         /\ FractionOk(out.view.Overdue, out.view.Total_Outstanding,
                       out.view.Overall_Overdue)
         /\ \A i \in DOMAIN out.view.rows :
              FractionOk(out.view.rows[i].Overdue_Loan_Outstanding.v,
                         out.view.rows[i].Total_Outstanding.v,
                         out.view.rows[i].Overdue_Percent_Branch)
    /\ script = "test_03" =>
         /\ PercentOk(out.view.total_overdue, out.view.total_outstanding,
                      out.view.avg_overdue_ratio)
         /\ \A i \in DOMAIN out.view.zone_summary :
              PercentOk(out.view.zone_summary[i].Total_Overdue,
                        out.view.zone_summary[i].Total_Outstanding,
                        out.view.zone_summary[i].Overdue_Ratio)

(* ---- top-N selections ---- *)
Descending(by) == \A i, j \in DOMAIN by : i < j => by[i] >= by[j]

Ascending(by) == \A i, j \in DOMAIN by : i < j => by[i] <= by[j]

\* top holds n of the rows cands (or all of them, if fewer), none of the
\* rows left out is larger than a row taken
LargestRows(top, cands, n, c) ==
  /\ Len(top) = Min(n, Len(cands))
  /\ \E p \in [DOMAIN top -> DOMAIN cands] :
       /\ \A i, j \in DOMAIN top : i # j => p[i] # p[j]
       /\ \A i \in DOMAIN top : top[i] = cands[p[i]]
       /\ \A k \in DOMAIN cands \ {p[i] : i \in DOMAIN top} :
            \A i \in DOMAIN top : cands[k][c].v <= top[i][c].v

\* the same for groups: one row per key, with the group total in column c
GroupsOf(key, c) ==
  {[k \in {key, c} |-> IF k = key THEN g ELSE GroupTotal(key, c, g)] :
     g \in {frame.rows[i][key] : i \in DataIdx} \ {""}}

LargestGroups(top, key, c, n) ==
  /\ Len(top) = Min(n, Cardinality(GroupsOf(key, c)))
  /\ \A i, j \in DOMAIN top : i # j => top[i][key] # top[j][key]
  /\ \A i \in DOMAIN top : top[i] \in GroupsOf(key, c)
  /\ \A g \in GroupsOf(key, c) \ Range(top) :
       \A i \in DOMAIN top : g[c] <= top[i][c]

\* the five top-N selections pick the largest rows or groups
C4_Largest ==
  /\ script = "adj" =>
       LargestRows(out.view.top20, frame.rows, TopN, "Adjustment_Total")
  /\ script = "test_02" =>
       LargestGroups(out.view.zone_summary, "Zone_Office", "Loan_Amount", TopN)
  /\ script = "test_03" =>
       LargestGroups(out.view.top_25_branches, "Branch_Name",
                     "SEP_2025_Month_Loan", TopN)
  /\ script = "test_04" =>
       LargestGroups(out.view.fig5, "Zone_Office", "Loan_Amount", TopN)
  /\ script = "test_05" =>
       LargestRows(out.view.top_n_df, frame.rows, TopN, "Total_Outstanding")

C4_DescendingElsewhere ==
  /\ script = "adj" =>
       Descending(Col(out.view.top20, "Adjustment_Total"))
  /\ script = "test_02" =>
       Descending(Series(out.view.zone_summary, "Loan_Amount"))
  /\ script = "test_04" => Descending(Series(out.view.fig5, "Loan_Amount"))
  /\ script = "test_05" =>
       Descending(Col(out.view.top_n_df, "Total_Outstanding"))

\* a pass that ran to the end of the script
Complete == Shown /\ ~out.halted

AllSelected ==
  /\ sel.domains = {frame.rows[i].Domain : i \in DOMAIN frame.rows}
  /\ sel.zones = {frame.rows[i].Zone : i \in DOMAIN frame.rows}

ExampleLoaded ==
  /\ script = "test_03"
  /\ file = PresentFile(t03_columns, ExampleRows)
  /\ Complete
  /\ AllSelected

\* C5: branches A with amounts [100, 200] and B with [50] group to the
\* totals A:300 and B:50, and the top-1 selection by total is the single row
\* (A, 300).
C5_Example ==
  ExampleLoaded =>
    /\ t03_branch_sums(t03_filter(frame.rows, sel))
         = <<[Branch_Name |-> "A", SEP_2025_Month_Loan |-> 300],
             [Branch_Name |-> "B", SEP_2025_Month_Loan |-> 50]>>
    /\ t03_top_n(t03_branch_sums(t03_filter(frame.rows, sel)), 1)
         = {<<[Branch_Name |-> "A", SEP_2025_Month_Loan |-> 300]>>}
    /\ out.view.total_loan_month = 350

C5_Witness ==
  /\ ExampleLoaded
  /\ out.view.top_zone_loan = "A"
  /\ \E i \in DOMAIN out.view.top_25_branches :
       out.view.top_25_branches[i]
         = [Branch_Name |-> "A", SEP_2025_Month_Loan |-> 300]

(* ---- a missing source file ---- *)
NothingRendered == out.shown \cap {"kpi", "chart", "table"} = {}

C7_Claim ==
  (renders > 0 /\ file.exists /\ ~(ColumnsOf(script) \subseteq file.cols)) =>
    (out.error /\ out.halted /\ NothingRendered)

(* ---- zero denominators ---- *)
ZeroWhen(den, ratio) == den = 0 => FEq(ratio, FZero)

\* C8 as stated: every ratio or average whose denominator is zero evaluates
\* to zero, never to an error, an infinity or an undefined value.
C8_Claim ==
  Shown =>
    /\ script = "adj" =>
         /\ ZeroWhen(out.view.total_members, out.view.avg_per_member)
         /\ ZeroWhen(out.view.total_branches, out.view.avg_per_branch)
         /\ \A i \in DOMAIN out.view.div_summary :
              ZeroWhen(out.view.div_summary[i].Number_Of_Member,
                       out.view.div_summary[i].Avg_per_Member)
    /\ script = "test_03" =>
         /\ ZeroWhen(out.view.total_members, out.view.avg_loan_per_member)
         /\ ZeroWhen(out.view.total_outstanding, out.view.avg_overdue_ratio)
         /\ \A i \in DOMAIN out.view.zone_summary :
              ZeroWhen(out.view.zone_summary[i].Total_Outstanding,
                       out.view.zone_summary[i].Overdue_Ratio)
    /\ script = "test_05" =>
         /\ ZeroWhen(out.view.Total_Outstanding, out.view.Overall_Overdue)
         /\ \A i \in DOMAIN out.view.rows :
              ZeroWhen(out.view.rows[i].Total_Outstanding.v,
                       out.view.rows[i].Overdue_Percent_Branch)

(* ---- the sign of the sums ---- *)
NonNegative(table, cs) ==
  \A i \in DOMAIN table : \A c \in cs : table[i][c] >= 0

\* every overall and per-group sum of an amount column on the page
SumsNonNegative ==
  /\ script = "adj" =>
       /\ out.view.grand_total >= 0
       /\ out.view.total_members >= 0
       /\ NonNegative(out.view.div_summary,
                      {"Adjustment_Total", "Number_Of_Member"})
  /\ script = "saving_fdr" =>
       /\ out.view.total_deposited_amount >= 0
       /\ NonNegative(out.view.df_zone, {"Deposited_Amount"})
  /\ script = "test_02" =>
       /\ out.view.sum_loan_amount >= 0
       /\ NonNegative(out.view.zone_summary, {"Loan_Amount"})
  /\ script = "test_03" =>
       /\ out.view.total_loan_month >= 0
       /\ out.view.total_outstanding >= 0
       /\ out.view.total_overdue >= 0
       /\ NonNegative(out.view.zone_summary,
                      {"SEP_2025_Month_Loan", "Total_Outstanding",
                       "Total_Overdue"})
  /\ script = "test_04" =>
       /\ out.view.total_loan >= 0
       /\ NonNegative(out.view.fig5, {"Loan_Amount"})
  /\ script = "test_05" =>
       /\ out.view.Total_Outstanding >= 0
       /\ out.view.Overdue >= 0

\* no cell of a coerced column of the file parses to a negative number
NoNegativeCell ==
  \A i \in DOMAIN file.rows :
    \A c \in CoercedColumns(script) :
      file.rows[i][c].k = "num" => file.rows[i][c].v >= 0

\* C9 as stated: after cleaning every monetary sum is non-negative, for
\* every input file.
C9_Original == Shown => SumsNonNegative

\* C9 (amended): after cleaning every monetary sum is non-negative whenever
\* no cell of the file's amount columns parses to a negative number (missing
\* and unparseable cells count as zero).
C9_Amended == (Shown /\ NoNegativeCell) => SumsNonNegative

\* an unparseable amount next to a positive one: the total is the positive one
C9_Witness ==
  /\ Shown
  /\ NoNegativeCell
  /\ script = "test_02"
  /\ \E i \in DOMAIN file.rows : file.rows[i].Loan_Amount.k # "num"
  /\ out.view.sum_loan_amount > 0

(* ---- memoized loading ---- *)
\* C10 as stated: in every script the source file is read from disk at most
\* once in a session, whatever the number of render passes.
C10_Claim == reads <= 1

\* C10 (amended): in the scripts with a memoized loader (all but
\* test_05.py), once load_data has returned and its result is memoized no
\* later render pass reads the source file again; a load that ends in an
\* exception or in st.stop() is not memoized and the next pass reads the file
\* again, and test_05.py reads the file in every pass.
C10_Amended ==
  [][/\ (script # "test_05" /\ cache.hit) => reads' = reads
     /\ (script # "test_05" /\ ~cache.hit /\ file.exists) =>
          /\ reads' = reads + 1
          /\ cache'.hit = (frame'.how = "return")
     /\ (script = "test_05" /\ file.exists) =>
          (reads' = reads + 1 /\ ~cache'.hit)]_vars

\* a second pass over a memoized frame: one read, two renders
C10_Witness ==
  /\ script # "test_05"
  /\ renders = 2
  /\ cache.hit /\ frame.ok /\ Len(frame.rows) > 0
  /\ reads = 1

(* ---- halts and messages ---- *)
\* C11: whenever a render pass stops before the dashboard is complete, an
\* inline error message has been shown in that pass; no pass halts silently.
C11_Claim == out.halted => out.error

(* ---- required dates ---- *)
DateColumns(s) ==
  CASE s = "saving_fdr" -> {"FDR_Opening_Date", "Mature_Date"}
    [] s = "test_02" -> {"Disbursment_Date"}
    [] s = "test_04" -> {"Disbursment_Date"}
    [] OTHER -> {}

\* the rows of the file whose required dates all parse
DatedIdx ==
  {i \in DOMAIN file.rows :
     \A c \in DateColumns(script) : file.rows[i][c].k = "date"}

\* C12 as stated: in saving_fdr.py, test_04.py and test_02.py a row whose
\* required date cannot be parsed is dropped, so the cleaned dataset holds
\* only rows with their required dates and no other row is lost for its date.
C12_Original ==
  (Loaded /\ DateColumns(script) # {}) =>
    /\ \A i \in DOMAIN frame.rows :
         \A c \in DateColumns(script) : frame.rows[i][c].k = "date"
    /\ script # "saving_fdr" => Len(frame.rows) = Cardinality(DatedIdx)
    /\ script = "saving_fdr" => Len(frame.rows) = Len(fdr_survivors)

\* what pd.to_datetime(errors='coerce') leaves of a file cell
Coerced(c) == IF c.k = "date" THEN c ELSE NoDate

\* C12 (amended): saving_fdr.py drops every row whose FDR_Opening_Date or
\* Mature_Date is missing or unparseable, so its cleaned dataset has no
\* missing required date; test_04.py keeps such a row with a missing (NaT)
\* Disbursment_Date; test_02.py keeps a row whose Disbursment_Date is
\* missing, and when a Disbursment_Date is text that does not parse the whole
\* load fails with an error message and the pass stops.
C12_Amended ==
  /\ (Loaded /\ script = "saving_fdr") =>
       /\ \A i \in DOMAIN frame.rows :
            \A c \in DateColumns(script) : frame.rows[i][c].k = "date"
       /\ Len(frame.rows) = Len(fdr_survivors)
  /\ (Loaded /\ script = "test_04") =>
       /\ Len(frame.rows) = Len(file.rows)
       /\ \A i \in DOMAIN frame.rows :
            frame.rows[i].Disbursment_Date
              = Coerced(file.rows[i].Disbursment_Date)
  /\ (Loaded /\ script = "test_02") =>
       /\ Len(frame.rows) = Len(file.rows)
       /\ \A i \in DOMAIN frame.rows :
            /\ file.rows[i].Disbursment_Date.k # "text"
            /\ frame.rows[i].Disbursment_Date = file.rows[i].Disbursment_Date
  /\ (renders > 0 /\ script = "test_02" /\ file.exists
      /\ t02_loader_columns \subseteq file.cols
      /\ \E i \in DOMAIN file.rows : file.rows[i].Disbursment_Date.k = "text") =>
       (~frame.ok /\ out.error /\ out.halted /\ out.shown = {})

\* an FDR row with an unparseable date was dropped while another row stayed,
\* or a test_04.py row with an unparseable date stayed with a missing date
C12_Witness ==
  /\ Loaded
  /\ \/ /\ script = "saving_fdr"
        /\ Len(frame.rows) > 0
        /\ \E i \in DOMAIN file.rows : file.rows[i].Mature_Date.k = "text"
     \/ /\ script = "test_04"
        /\ \E i \in DOMAIN frame.rows :
             /\ file.rows[i].Disbursment_Date.k = "text"
             /\ frame.rows[i].Disbursment_Date = NoDate

DataZones == {frame.rows[i].Zone : i \in DataIdx} \ {""}

\* 100 * overdue / outstanding, and 0 when outstanding is not positive
IsOverdueRatio(r, overdue, outstanding) ==
  IF outstanding > 0
    THEN r.k = "fin" /\ r.n * outstanding = 100 * overdue * r.d
    ELSE FEq(r, FZero)

\* the table has one row for each zone of the filtered data, carrying the
\* zone's overdue ratio
ZoneRatios(table) ==
  /\ {table[i].Zone : i \in DOMAIN table} = DataZones
  /\ Len(table) = Cardinality(DataZones)
  /\ \A i \in DOMAIN table :
       IsOverdueRatio(table[i].Overdue_Ratio,
                      GroupTotal("Zone", "Total_Overdue", table[i].Zone),
                      GroupTotal("Zone", "Total_Outstanding", table[i].Zone))

\* C14: in test_03.py the Overdue_Ratio of a zone is 100 times the zone's
\* summed Total_Overdue divided by its summed Total_Outstanding, and 0 when
\* that sum is not positive; the risk KPI, the top-15 chart and the zone
\* summary table carry the same value for the same zone and selection.
C14_OverdueRatio ==
  (Complete /\ script = "test_03") =>
    /\ ZoneRatios(out.view.zone_risk)
    /\ ZoneRatios(out.view.zone_overdue_ratio)
    /\ ZoneRatios(out.view.zone_summary)
    /\ \A i \in DOMAIN out.view.zone_summary :
         /\ out.view.zone_risk[i].Zone = out.view.zone_summary[i].Zone
         /\ out.view.zone_overdue_ratio[i].Zone = out.view.zone_summary[i].Zone
         /\ out.view.zone_risk[i].Overdue_Ratio
              = out.view.zone_summary[i].Overdue_Ratio
         /\ out.view.zone_overdue_ratio[i].Overdue_Ratio
              = out.view.zone_summary[i].Overdue_Ratio

\* two zones, one with a proper ratio from two rows and one without
\* outstanding amount
C14_Witness ==
  /\ Complete /\ script = "test_03"
  /\ Len(out.view.zone_summary) >= 1
  /\ \E i \in DOMAIN out.view.zone_summary :
       /\ out.view.zone_summary[i].Total_Outstanding = 200
       /\ out.view.zone_summary[i].Total_Overdue = 30
       /\ out.view.zone_overdue_ratio[i].Overdue_Ratio = Fin(3000, 200)
  /\ \E i \in DOMAIN frame.rows :
       frame.rows[i].Total_Outstanding.v = 0 /\ frame.rows[i].Total_Overdue.v > 0

(* ---- test_03.py: the sidebar filter ---- *)
\* the sum of column c of the loaded frame over the rows I
TotalOver(c, I) ==
  SumFn([i \in DOMAIN frame.rows |-> frame.rows[i][c].v], I)

\* x / y, and 0 when y is not positive
IsGuardedRatio(r, x, y) ==
  IF y > 0 THEN r.k = "fin" /\ r.n * y = x * r.d ELSE FEq(r, FZero)

\* the displayed totals and averages are those of the rows I of the frame
KpisOver(I) ==
  /\ out.view.total_members = TotalOver("No_of_Members", I)
  /\ out.view.total_loan_month = TotalOver("SEP_2025_Month_Loan", I)
  /\ out.view.total_outstanding = TotalOver("Total_Outstanding", I)
  /\ out.view.total_overdue = TotalOver("Total_Overdue", I)
  /\ IsGuardedRatio(out.view.avg_loan_per_member,
                    TotalOver("SEP_2025_Month_Loan", I),
                    TotalOver("No_of_Members", I))
  /\ IsOverdueRatio(out.view.avg_overdue_ratio,
                    TotalOver("Total_Overdue", I),
                    TotalOver("Total_Outstanding", I))

\* C15: in test_03.py the filtered dataset holds exactly the rows whose
\* Domain is among the selected domains and whose Zone is among the selected
\* zones, the displayed KPIs are computed from it, and under the default
\* selection (everything selected) it is the whole loaded dataset, so the
\* KPIs are those of the whole dataset.
C15_Filter ==
  (Complete /\ script = "test_03") =>
    /\ out.view.filtered_df
         = SelectSeq(frame.rows, LAMBDA r :
             r.Domain \in sel.domains /\ r.Zone \in sel.zones)
    /\ KpisOver(DataIdx)
    /\ AllSelected =>
         /\ out.view.filtered_df = frame.rows
         /\ KpisOver(DOMAIN frame.rows)

\* a selection that keeps one of two zones, and not all the rows
C15_Witness ==
  /\ Complete /\ script = "test_03"
  /\ ~AllSelected
  /\ Len(out.view.filtered_df) > 0
  /\ Len(out.view.filtered_df) < Len(frame.rows)
  /\ out.view.total_outstanding > 0
  /\ out.view.total_outstanding < TotalOver("Total_Outstanding", DOMAIN frame.rows)

(* ---- test_03.py: a selection that matches nothing ---- *)
\* load_data returned a frame that passes the required-columns check
t03_Accepted ==
  /\ renders > 0 /\ script = "test_03"
  /\ frame.ok /\ t03_required_columns \subseteq frame.cols

\* C16: in test_03.py, when the selection matches no row every numeric KPI
\* is 0, 'Top Zone by Loan' is 'N/A' and the pass completes without an error;
\* when it matches a row, 'Top Zone by Loan' is a zone of the filtered data
\* whose summed monthly loan is maximal.
C16_Claim ==
  t03_Accepted =>
    /\ Complete /\ ~out.error
    /\ DataIdx = {} =>
         /\ out.view.total_members = 0
         /\ out.view.total_loan_month = 0
         /\ out.view.total_outstanding = 0
         /\ out.view.total_overdue = 0
         /\ out.view.avg_loan_per_member = FZero
         /\ out.view.avg_overdue_ratio = FZero
         /\ out.view.high_risk_zones = 0
         /\ out.view.top_zone_loan = "N/A"
    /\ DataIdx # {} =>
         /\ out.view.top_zone_loan \in DataZones
         /\ \A z \in DataZones :
              GroupTotal("Zone", "SEP_2025_Month_Loan", z)
                <= GroupTotal("Zone", "SEP_2025_Month_Loan",
                              out.view.top_zone_loan)

(* ---- test_03.py: high-risk zones ---- *)
\* the zone's summed overdue is strictly more than 10% of its summed
\* outstanding amount, which is positive
HighRisk(z) ==
  /\ GroupTotal("Zone", "Total_Outstanding", z) > 0
  /\ 10 * GroupTotal("Zone", "Total_Overdue", z)
       > GroupTotal("Zone", "Total_Outstanding", z)

\* C17: in test_03.py the 'High-Risk Zones (>10%)' KPI is the number of zones
\* of the filtered data whose summed Total_Overdue is strictly more than 10%
\* of their summed Total_Outstanding; a zone at exactly 10% is not counted,
\* and a zone without outstanding amount is never counted, even when its
\* overdue is positive.
C17_HighRisk ==
  (Complete /\ script = "test_03") =>
    out.view.high_risk_zones = Cardinality({z \in DataZones : HighRisk(z)})

\* a zone at exactly 10% next to a zone that is counted
C17_Witness ==
  /\ Complete /\ script = "test_03"
  /\ out.view.high_risk_zones = 1
  /\ \E z \in DataZones :
       /\ GroupTotal("Zone", "Total_Outstanding", z) = 100
       /\ GroupTotal("Zone", "Total_Overdue", z) = 10
  /\ \E z \in DataZones : HighRisk(z)

(* ---------------- test_05.py: the risk composition pie ---------------- *)
\* the sum of column c over the whole loaded frame
FrameTotal(c) == TotalOver(c, DOMAIN frame.rows)

\* the bad loans lie within the overdue loans and these within the portfolio
PortfolioConsistent ==
  /\ 0 <= FrameTotal("Bad_Loan_365+")
  /\ FrameTotal("Bad_Loan_365+") <= FrameTotal("Overdue_Loan_Outstanding")
  /\ FrameTotal("Overdue_Loan_Outstanding") <= FrameTotal("Total_Outstanding")

\* C18: in test_05.py plot_risk_composition_3d_pie the healthy, overdue
\* (0-365) and bad loan (365+) amounts are never negative, and whenever
\* 0 <= bad-loan sum <= overdue sum <= total outstanding sum they add up
\* exactly to the total outstanding sum.
C18_RiskPie ==
  (script = "test_05" /\ Complete) =>
    /\ Len(out.view.fig_3d_pie) = 3
    /\ \A k \in 1..3 : out.view.fig_3d_pie[k] >= 0
    /\ PortfolioConsistent =>
         out.view.fig_3d_pie[1] + out.view.fig_3d_pie[2]
           + out.view.fig_3d_pie[3] = FrameTotal("Total_Outstanding")

\* a consistent portfolio of several branches with three non-empty slices
C18_Witness ==
  /\ script = "test_05" /\ Complete /\ PortfolioConsistent
  /\ Len(frame.rows) > 1
  /\ \A k \in 1..3 : out.view.fig_3d_pie[k] > 0
  /\ out.view.fig_3d_pie[1] + out.view.fig_3d_pie[2] + out.view.fig_3d_pie[3]
       = FrameTotal("Total_Outstanding")

\* an inconsistent portfolio (more overdue than outstanding, or more bad
\* loans than overdue) whose slice is floored at zero
C18_Floored ==
  /\ script = "test_05" /\ Complete /\ ~PortfolioConsistent
  /\ \E k \in 1..3 : out.view.fig_3d_pie[k] = 0

(* ---------------- test_05.py: the two ratio pies ---------------- *)
\* a pie of create_pie_chart_ratio, for the achieved and the overall sum
IsRatioPie(fig, achieved, overall_sum) ==
  /\ Len(fig.Value) = 2
  /\ fig.Value[1] = Max(0, overall_sum - achieved)
  /\ fig.Value[1] >= 0
  /\ fig.Value[2] = achieved
  /\ achieved <= overall_sum => fig.Value[1] + fig.Value[2] = overall_sum
  /\ IsGuardedRatio(fig.ratio, achieved, overall_sum)

\* C19: in test_05.py create_pie_chart_ratio the unachieved portion is
\* max(0, overall_sum - achieved sum) and never negative; when the achieved
\* sum is at most overall_sum the two pie values add up to overall_sum, and
\* the ratio of the title is achieved / overall_sum when overall_sum > 0 and
\* 0 otherwise. main() draws the pie for fully paid against disbursed loans
\* and for regularly recovered against recoverable loans.
C19_RatioPie ==
  (script = "test_05" /\ Shown) =>
    /\ IsRatioPie(out.view.fig_loan_comp,
                  FrameTotal("Fully_Paid_Borrower_Oct"),
                  FrameTotal("Loan_Disbursement_Borrower_Oct"))
    /\ IsRatioPie(out.view.fig_recovery_pie,
                  FrameTotal("Loan_Recovered_Regular_Oct"),
                  FrameTotal("Loan_Recoverable_Oct"))

\* several branches: fewer loans fully paid than disbursed, so that the pie
\* has an unachieved portion, and more recovered than was recoverable, so
\* that the unachieved portion of the other pie is floored at zero
C19_Witness ==
  /\ script = "test_05" /\ Shown /\ Len(frame.rows) > 1
  /\ 0 < FrameTotal("Fully_Paid_Borrower_Oct")
  /\ FrameTotal("Fully_Paid_Borrower_Oct")
       < FrameTotal("Loan_Disbursement_Borrower_Oct")
  /\ out.view.fig_loan_comp.Value[1] > 0
  /\ FrameTotal("Loan_Recovered_Regular_Oct")
       > FrameTotal("Loan_Recoverable_Oct")
  /\ out.view.fig_recovery_pie.Value[1] = 0

\* nothing was disbursed and yet loans were fully paid: the ratio is 0
C19_NothingDisbursed ==
  /\ script = "test_05" /\ Shown
  /\ FrameTotal("Loan_Disbursement_Borrower_Oct") <= 0
  /\ FrameTotal("Fully_Paid_Borrower_Oct") > 0
  /\ FEq(out.view.fig_loan_comp.ratio, FZero)

(* ---------------- test_05.py: the derived columns ---------------- *)
\* the rows of the stacked bar chart that belong to branch b
BarOf(b) == {j \in DOMAIN out.view.melted_df :
               out.view.melted_df[j].BranchName = b}

\* the charted rows of branch b
ChartedOf(b) == {i \in DOMAIN out.view.top_n_df :
                   out.view.top_n_df[i].BranchName = b}

\* C20: in test_05.py load_data every row has Net_Member_Growth_Oct =
\* New_Member_Admission_Oct - Member_Cancellation_Oct,
\* Oct_Total_Due_Loanee_Combined = Oct_Total Due + Total_Due_Loanee and
\* Non_Overdue_Outstanding + Overdue_Loan_Outstanding = Total_Outstanding;
\* so the 'Net Member Growth' KPI is the total of the admissions minus the
\* total of the cancellations, and each stacked bar adds up to the
\* Total_Outstanding of the branch it is drawn for.
C20_Derived ==
  (script = "test_05" /\ Shown) =>
    /\ \A i \in DOMAIN frame.rows :
         LET r == frame.rows[i]
         IN  /\ r.Net_Member_Growth_Oct.v
                  = r.New_Member_Admission_Oct.v - r.Member_Cancellation_Oct.v
             /\ r.Oct_Total_Due_Loanee_Combined.v
                  = r["Oct_Total Due"].v + r.Total_Due_Loanee.v
             /\ r.Non_Overdue_Outstanding.v + r.Overdue_Loan_Outstanding.v
                  = r.Total_Outstanding.v
    /\ out.view.Net_Member_Growth
         = FrameTotal("New_Member_Admission_Oct")
             - FrameTotal("Member_Cancellation_Oct")
    /\ Complete =>
         /\ Len(out.view.melted_df) = 2 * Len(out.view.top_n_df)
         /\ \A i \in DOMAIN out.view.top_n_df :
              SumFn([j \in DOMAIN out.view.melted_df |->
                       out.view.melted_df[j].Amount],
                    BarOf(out.view.top_n_df[i].BranchName))
                = SumFn([k \in DOMAIN out.view.top_n_df |->
                           out.view.top_n_df[k].Total_Outstanding.v],
                        ChartedOf(out.view.top_n_df[i].BranchName))

\* a completed pass over several branches, one of which lost members, with
\* a non-zero net growth and a bar of a healthy and an overdue part
C20_Witness ==
  /\ script = "test_05" /\ Complete /\ Len(frame.rows) > 1
  /\ \E i \in DOMAIN frame.rows : frame.rows[i].Net_Member_Growth_Oct.v < 0
  /\ \E i \in DOMAIN frame.rows :
       frame.rows[i].Oct_Total_Due_Loanee_Combined.v > 0
  /\ out.view.Net_Member_Growth # 0
  /\ out.view.Net_Member_Growth
       = FrameTotal("New_Member_Admission_Oct")
           - FrameTotal("Member_Cancellation_Oct")
  /\ \E i \in DOMAIN out.view.top_n_df :
       /\ out.view.top_n_df[i].Non_Overdue_Outstanding.v > 0
       /\ out.view.top_n_df[i].Overdue_Loan_Outstanding.v > 0
       /\ ChartedOf(out.view.top_n_df[i].BranchName) = {i}
       /\ Cardinality(BarOf(out.view.top_n_df[i].BranchName)) = 2

(* ---------------- test_04.py: the prediction card ---------------- *)
\* the valid disbursement dates of the loaded frame
FrameDates ==
  {frame.rows[i].Disbursment_Date.v :
     i \in {j \in DOMAIN frame.rows : frame.rows[j].Disbursment_Date.k = "date"}}

\* the days from the earliest to the latest valid date, both included
FrameSpan ==
  CHOOSE n \in {hi - lo + 1 : lo \in FrameDates, hi \in FrameDates} :
    \A lo \in FrameDates, hi \in FrameDates : hi - lo + 1 <= n

\* C21: in test_04.py disbursing_days is (latest - earliest disbursement
\* date in days) + 1, or 27 when no date is valid, hence at least 1; the
\* predicted total is total x 30 / disbursing_days, and the card tells an
\* increase exactly when the total is positive and disbursing_days is below
\* 30, a decrease in every other case.
C21_Claim ==
  (script = "test_04" /\ Complete) =>
    LET p == out.view.prediction
    IN  /\ p.drawn
        /\ p.oct_loan_amount = FrameTotal("Loan_Amount")
        /\ p.disbursing_days = IF FrameDates # {} THEN FrameSpan ELSE 27
        /\ p.disbursing_days >= 1
        /\ FEq(p.predicted_nov_amount,
               Fin(p.oct_loan_amount * 30, p.disbursing_days))
        /\ p.change \in {"increase", "decrease"}
        /\ p.change = "increase" <=>
             (p.oct_loan_amount > 0 /\ p.disbursing_days < 30)

\* the days, the predicted total and the wording apart from the case split
C21_Values ==
  (script = "test_04" /\ Complete) =>
    LET p == out.view.prediction
    IN  /\ p.drawn
        /\ p.oct_loan_amount = FrameTotal("Loan_Amount")
        /\ p.disbursing_days = IF FrameDates # {} THEN FrameSpan ELSE 27
        /\ p.disbursing_days >= 1
        /\ FEq(p.predicted_nov_amount,
               Fin(p.oct_loan_amount * 30, p.disbursing_days))
        /\ p.change \in {"increase", "decrease"}
        /\ (p.oct_loan_amount > 0 /\ p.disbursing_days < 30) =>
             p.change = "increase"
        /\ (p.oct_loan_amount >= 0 /\ p.disbursing_days > 30) =>
             p.change = "decrease"
        /\ p.oct_loan_amount = 0 => p.change = "decrease"

\* thirty days of disbursement and an increase on the card
C21_ThirtyDays ==
  /\ script = "test_04" /\ Complete
  /\ out.view.prediction.disbursing_days = 30
  /\ out.view.prediction.oct_loan_amount > 0
  /\ out.view.prediction.change = "increase"

\* a negative total over more than thirty days and an increase on the card
C21_NegativeTotal ==
  /\ script = "test_04" /\ Complete
  /\ out.view.prediction.disbursing_days > 30
  /\ out.view.prediction.oct_loan_amount < 0
  /\ out.view.prediction.change = "increase"

(* ---------------- saving_fdr.py: the forecast ---------------- *)
\* the distinct opening dates of the cleaned data
OpeningDates == {frame.rows[i].FDR_Opening_Date.v : i \in DOMAIN frame.rows}

\* the last opening date
LastOpening == CHOOSE d \in OpeningDates : \A e \in OpeningDates : e <= d

C22_Warning ==
  /\ script = "saving_fdr" /\ Complete
  /\ Len(frame.rows) > 1 /\ Cardinality(OpeningDates) = 1
  /\ out.view.forecast.warning /\ ~out.view.forecast.drawn

(* ---------------- saving_fdr.py: the predicted trend ---------------- *)
\* the slope and the threshold (1% of the mean daily amount) of the drawn
\* forecast, both scaled by 100 * n * Sxx > 0
ScaledSlope == 100 * out.view.forecast.model.n * out.view.forecast.model.Sxy

ScaledThreshold == out.view.forecast.model.Sy * out.view.forecast.model.Sxx

Trend == out.view.forecast.trend_analysis

ForecastDrawn ==
  script = "saving_fdr" /\ Complete /\ out.view.forecast.drawn

\* the model of the drawn forecast is the least-squares line of the daily
\* sums of the frame
ModelOfFrame ==
  /\ out.view.forecast.model.n = Cardinality(OpeningDates)
  /\ out.view.forecast.model.Sxx > 0
  /\ out.view.forecast.model.Sy = FrameTotal("Deposited_Amount")

\* C23 as stated: the trend is exactly one of INCREASE, DECREASE, STABLE; it
\* is STABLE if and only if |slope| is at most 1% of the mean daily amount,
\* INCREASE if the slope is above that threshold and DECREASE if it is below
\* its negative, whatever the sign of the mean.
C23_Original ==
  ForecastDrawn =>
    /\ ModelOfFrame
    /\ Trend \in {"INCREASE", "DECREASE", "STABLE"}
    /\ Trend = "STABLE" <=>
         (ScaledSlope <= ScaledThreshold /\ -ScaledSlope <= ScaledThreshold)
    /\ ScaledSlope > ScaledThreshold => Trend = "INCREASE"
    /\ ScaledSlope < -ScaledThreshold => Trend = "DECREASE"

\* C23 amended: the trend is exactly one of INCREASE, DECREASE, STABLE:
\* INCREASE if the slope is above 1% of the mean daily amount, otherwise
\* DECREASE if it is below the negative of that threshold, otherwise STABLE.
\* With a mean >= 0 it is STABLE if and only if |slope| is at most the
\* threshold; with a negative mean it is never STABLE: INCREASE for every
\* slope above the (negative) threshold, a flat series included, and
\* DECREASE for every other slope.
C23_Amended ==
  ForecastDrawn =>
    /\ ModelOfFrame
    /\ Trend \in {"INCREASE", "DECREASE", "STABLE"}
    /\ Trend = "INCREASE" <=> ScaledSlope > ScaledThreshold
    /\ Trend = "DECREASE" <=>
         (ScaledSlope <= ScaledThreshold /\ ScaledSlope < -ScaledThreshold)
    /\ ScaledThreshold >= 0 =>
         (Trend = "STABLE" <=>
            (ScaledSlope <= ScaledThreshold /\ -ScaledSlope <= ScaledThreshold))
    /\ ScaledThreshold < 0 => Trend # "STABLE"

\* a flat series of negative daily amounts is told to increase
C23_Witness ==
  /\ ForecastDrawn
  /\ ScaledThreshold < 0 /\ ScaledSlope = 0
  /\ Trend = "INCREASE"

\* a flat series of positive daily amounts is told stable
C23_Stable ==
  ForecastDrawn /\ ScaledThreshold > 0 /\ ScaledSlope = 0 /\ Trend = "STABLE"

\* a mean of zero
C23_ZeroMean == ForecastDrawn /\ ScaledThreshold = 0 /\ Trend # "STABLE"

(* ---------------- test_02.py, test_04.py: the age groups ---------------- *)
\* the group label names the age: "lo-hi" with lo <= age <= hi, "lo+" with
\* lo <= age
LabelHolds(label, age) ==
  CASE label = "18-24" -> 18 <= age /\ age <= 24
    [] label = "25-34" -> 25 <= age /\ age <= 34
    [] label = "35-44" -> 35 <= age /\ age <= 44
    [] label = "45-54" -> 45 <= age /\ age <= 54
    [] label = "55+" -> 55 <= age
    [] label = "18-25" -> 18 <= age /\ age <= 25
    [] label = "26-35" -> 26 <= age /\ age <= 35
    [] label = "36-45" -> 36 <= age /\ age <= 45
    [] label = "46-55" -> 46 <= age /\ age <= 55
    [] label = "56+" -> 56 <= age
    [] OTHER -> FALSE

AgeLabels(s) ==
  IF s = "test_02" THEN {"18-24", "25-34", "35-44", "45-54", "55+"}
  ELSE {"18-25", "26-35", "36-45", "46-55", "56+"}

\* the pass loaded a frame of test_02.py or test_04.py
AgesLoaded == script \in {"test_02", "test_04"} /\ Loaded

\* C24: every row with borrower age >= 18 gets exactly one age group, whose
\* label contains the age ('55+' for every age >= 55 in test_02.py, '56+'
\* for every age >= 56 in test_04.py); a row with an age below 18, a missing
\* age coerced to 0 included, gets no group.
C24_Claim ==
  AgesLoaded =>
    \A i \in DOMAIN frame.rows :
      LET age == frame.rows[i].Borrower_Age.v
          group == frame.rows[i].Age_Group
      IN  /\ age >= 18 =>
               (group \in AgeLabels(script) /\ LabelHolds(group, age))
          /\ age < 18 => group = ""

\* the groups as claimed, for the ages up to the last bin edge
C24_Below100 ==
  AgesLoaded =>
    \A i \in DOMAIN frame.rows :
      LET age == frame.rows[i].Borrower_Age.v
          group == frame.rows[i].Age_Group
      IN  /\ (age >= 18 /\ age < 100) =>
               (group \in AgeLabels(script) /\ LabelHolds(group, age))
          /\ age < 18 => group = ""
          /\ age > 100 => group = ""
          /\ age = 100 => group = IF script = "test_04" THEN "56+" ELSE ""

\* a borrower of 100 years in test_02.py is left without a group
C24_Centenarian ==
  /\ script = "test_02" /\ Loaded /\ Len(frame.rows) = 1
  /\ frame.rows[1].Borrower_Age.v = 100
  /\ frame.rows[1].Age_Group = ""

(* ---------------- test_02.py: the top borrower codes ---------------- *)
\* the distinct borrower codes of the data
BorrowerCodes ==
  {frame.rows[i].BorrowerCode : i \in DOMAIN frame.rows} \ {""}

\* the Loan_Amount of all the rows of borrower c
BorrowerTotal(c) == GroupTotal("BorrowerCode", "Loan_Amount", c)

\* codes are TopN of the borrower codes (all, when there are fewer), and no
\* borrower left out has a larger total than one taken
TopBorrowers(codes) ==
  /\ codes \subseteq BorrowerCodes
  /\ Cardinality(codes) = Min(TopN, Cardinality(BorrowerCodes))
  /\ \A c \in codes, d \in BorrowerCodes \ codes :
       BorrowerTotal(d) <= BorrowerTotal(c)

\* the stacked chart (lines 264-268): the bars of the top codes, split by
\* office, add up to the borrower's full total
C25_Stacked ==
  (script = "test_02" /\ Complete) =>
    LET chart == out.view.df_top_25_office
        codes == {chart[i].BorrowerCode : i \in DOMAIN chart}
    IN  /\ codes = Range(out.view.top_25_codes)
        /\ TopBorrowers(codes)
        /\ \A c \in codes :
             SumFn([i \in DOMAIN chart |-> chart[i].Loan_Amount],
                   {i \in DOMAIN chart : chart[i].BorrowerCode = c})
               = BorrowerTotal(c)

\* the chart of the top borrowers with their age (lines 285-289)
C25_Members ==
  (script = "test_02" /\ Complete) =>
    LET chart == out.view.top_members
        codes == {chart[i].BorrowerCode : i \in DOMAIN chart}
    IN  /\ TopBorrowers(codes)
        /\ \A i \in DOMAIN chart :
             chart[i].Total_Loan_Amount = BorrowerTotal(chart[i].BorrowerCode)

\* C25: in test_02.py the 'Top 25 Borrower Codes' charts show exactly
\* min(25, number of distinct borrower codes) distinct borrower codes, those
\* with the largest Loan_Amount summed over all of the borrower's rows, each
\* with that full per-borrower total (split by office in the stacked chart).
C25_Claim == C25_Stacked /\ C25_Members

\* a borrower recorded with two ages takes two bars of the chart
C25_TwoAges ==
  /\ script = "test_02" /\ Complete
  /\ Len(out.view.top_members) = 2
  /\ out.view.top_members[1].BorrowerCode = out.view.top_members[2].BorrowerCode
  /\ Cardinality(BorrowerCodes) >= 2

\* borrowers with one age each: their bars carry the full totals
C25_OneAge ==
  /\ script = "test_02" /\ Complete
  /\ Cardinality(BorrowerCodes) = 3
  /\ Len(out.view.top_members) = 2
  /\ \A i \in 1..2 :
       out.view.top_members[i].Total_Loan_Amount
         = BorrowerTotal(out.view.top_members[i].BorrowerCode)

(* ---- grouped charts against the KPI totals ---- *)
\* the sum of column c over the rows of a group table
TableSum(table, c) == SumFn([i \in DOMAIN table |-> table[i][c]], DOMAIN table)

\* the data rows of the last pass that fall into a group of the chart:
\* groupby drops a missing key, the age bins cover 18..99 and the rate
\* chart keeps the positive rates
Grouped(chart) ==
  CASE chart = "Divisional" -> DataIdx
    [] chart = "Zone" -> {i \in DataIdx : frame.rows[i].Zone # ""}
    [] chart = "Age_Group" ->
         {i \in DataIdx : frame.rows[i].Borrower_Age.v \in 18..99}
    [] chart = "Sc_Rate" -> {i \in DataIdx : frame.rows[i].Sc_Rate.v > 0}

\* C26 as stated: in every script the totals of the groups of an uncut
\* grouped chart add up to the KPI total of the column over the same
\* dataset, rows with a missing grouping key included (adj.py by Divisional,
\* test_03.py by Zone, test_02.py by Age_Group and by Sc_Rate).
C26_Claim ==
  Complete =>
    /\ script = "adj" =>
         TableSum(out.view.div_summary, "Adjustment_Total")
           = out.view.grand_total
    /\ script = "test_03" =>
         TableSum(out.view.zone_summary, "SEP_2025_Month_Loan")
           = out.view.total_loan_month
    /\ script = "test_02" =>
         /\ TableSum(out.view.age_summary, "Loan_Amount")
              = out.view.sum_loan_amount
         /\ TableSum(out.view.rate_summary, "Loan_Amount")
              = out.view.sum_loan_amount

\* C26 amended: the totals of the groups add up to the total of the column
\* over the rows that fall into a group. In adj.py every row does (a missing
\* Divisional is the key 0): the members add up to Total Members and the
\* rounded group totals to the Grand Total within half a cent a group. In
\* test_03.py the rows without Zone are in no group, in test_02.py the rows
\* aged outside 18..99 are in no age group and the rows with a rate of zero
\* or less are in no rate group.
C26_Amended ==
  Complete =>
    /\ script = "adj" =>
         /\ TableSum(out.view.div_summary, "Number_Of_Member")
              = out.view.total_members
         /\ TableSum(out.view.div_summary, "Adjustment_Total")
              - out.view.grand_total <= 5 * Len(out.view.div_summary)
         /\ out.view.grand_total
              - TableSum(out.view.div_summary, "Adjustment_Total")
              <= 5 * Len(out.view.div_summary)
    /\ script = "test_03" =>
         \A c \in {"SEP_2025_Month_Loan", "Total_Overdue", "Total_Outstanding"} :
           TableSum(out.view.zone_summary, c) = TotalOver(c, Grouped("Zone"))
    /\ script = "test_02" =>
         /\ TableSum(out.view.age_summary, "Loan_Amount")
              = TotalOver("Loan_Amount", Grouped("Age_Group"))
         /\ TableSum(out.view.rate_summary, "Loan_Amount")
              = TotalOver("Loan_Amount", Grouped("Sc_Rate"))

\* a test_03.py pass that ran to its end over rows with and without Zone,
\* the latter carrying part of the month's loan
C26_Witness ==
  /\ Complete
  /\ script = "test_03"
  /\ Grouped("Zone") # {}
  /\ TotalOver("SEP_2025_Month_Loan", DataIdx \ Grouped("Zone")) > 0

\* a test_02.py pass that charted the rates over loans with and without one
C26_RateWitness ==
  /\ Complete
  /\ script = "test_02"
  /\ out.view.rate_summary # <<>>
  /\ TotalOver("Loan_Amount", DataIdx \ Grouped("Sc_Rate")) > 0

(* ---- test_05.py: the member activity chart ---- *)
\* the net member growth of row i of the loaded frame, from its counts
NetGrowth(i) ==
  frame.rows[i].New_Member_Admission_Oct.v
    - frame.rows[i].Member_Cancellation_Oct.v

\* the bars are the rows q[1], q[2], .. of the frame, none of the rows left
\* out having a larger absolute net growth than a row that is shown
ShowsLargest(fig, q) ==
  /\ \A i \in DOMAIN fig :
       /\ fig[i].BranchName = frame.rows[q[i]].BranchName
       /\ fig[i].New_Member_Admission_Oct
            = frame.rows[q[i]].New_Member_Admission_Oct.v
       /\ fig[i].Member_Cancellation_Oct
            = frame.rows[q[i]].Member_Cancellation_Oct.v
       /\ fig[i].Net_Member_Growth_Oct = NetGrowth(q[i])
  /\ \A i \in DOMAIN fig : \A j \in DOMAIN frame.rows \ DOMAIN fig :
       Abs(NetGrowth(q[j])) <= Abs(NetGrowth(q[i]))

\* C29: in test_05.py plot_member_activity_diverging_bar shows min(n, number
\* of branches) branches, those with the largest absolute net member growth
\* |admissions - cancellations|, in ascending order of the signed net growth,
\* and the cancellation bar of each is the negation of its cancellations.
C29_MemberActivity ==
  (script = "test_05" /\ Complete) =>
    LET fig == out.view.fig_member_ranking
    IN  /\ Len(fig) = Min(TopN, Len(frame.rows))
        /\ \E q \in Perms(Len(frame.rows)) : ShowsLargest(fig, q)
        /\ \A i \in 1..(Len(fig) - 1) :
             fig[i].Net_Member_Growth_Oct <= fig[i + 1].Net_Member_Growth_Oct
        /\ \A i \in DOMAIN fig :
             fig[i].Member_Cancellation_Oct_Negative
               = -fig[i].Member_Cancellation_Oct

\* more branches than bars, a shrinking branch shown ahead of a growing one
\* and a branch of smaller absolute growth left out
C29_Witness ==
  /\ script = "test_05" /\ Complete
  /\ Len(frame.rows) > TopN
  /\ Len(out.view.fig_member_ranking) = TopN
  /\ out.view.fig_member_ranking[1].Net_Member_Growth_Oct < 0
  /\ out.view.fig_member_ranking[1].Member_Cancellation_Oct_Negative < 0
  /\ out.view.fig_member_ranking[TopN].Net_Member_Growth_Oct > 0
  /\ \E j \in DOMAIN frame.rows :
       /\ NetGrowth(j) >= 0
       /\ \A i \in 1..TopN :
            NetGrowth(j) < Abs(out.view.fig_member_ranking[i].Net_Member_Growth_Oct)

(* ---- a source file that comes and goes ---- *)
\* the step is a render pass
Pass == renders' = renders + 1

\* the pass of this step ran to the end of the script over a loaded frame
Dashboard == frame'.ok /\ ~out'.halted /\ out'.view.script = script

\* C27 as stated: a load failure is fatal only to the pass it occurs in. In
\* every script a pass that finds the file, after a pass that did not, reads
\* the file and shows the dashboard, and a failed load is never memoized.
C27_Claim ==
  /\ [][(Pass /\ renders > 0 /\ ~disk.seen.exists /\ file.exists) =>
          (reads' = reads + 1 /\ Dashboard)]_vars
  /\ [](cache.hit => cache.val.ok)

\* where the loader leaves by an exception (adj.py) or by st.stop()
\* (test_02.py), or is not memoized (test_05.py), every pass that finds the
\* file shows the dashboard, and reads the file unless a frame is cached
C27_Recovery ==
  [][(Pass /\ script \in {"adj", "test_02", "test_05"} /\ file.exists) =>
       /\ Dashboard
       /\ (load_is_cached(script) /\ cache.hit) \/ reads' = reads + 1
       /\ cache'.hit => cache'.val.ok]_vars

\* the file is in place, the last pass found it, and the page is the error
\* of the load that failed while the file was missing
C27_StaleFailure ==
  /\ renders >= 2
  /\ file.exists /\ disk.seen = file
  /\ reads = 0
  /\ cache.hit /\ ~cache.val.ok
  /\ out.error /\ out.halted

(* ---- a source file that is overwritten ---- *)
\* the amount column behind the headline total of each script
AmountColumn(s) ==
  CASE s = "adj" -> "Adjustment_Total"
    [] s = "saving_fdr" -> "Deposited_Amount"
    [] s = "test_02" -> "Loan_Amount"
    [] s = "test_03" -> "SEP_2025_Month_Loan"
    [] s = "test_04" -> "Loan_Amount"
    [] s = "test_05" -> "Total_Outstanding"

\* the total of that column over the rows of a file as they stand on disk
ContentTotal(f) ==
  SumFn([i \in DOMAIN f.rows |->
           IF f.rows[i][AmountColumn(script)].k = "num"
             THEN f.rows[i][AmountColumn(script)].v ELSE 0],
        DOMAIN f.rows)

\* the headline total on the page
ShownTotal(view) ==
  CASE view.script = "adj" -> view.grand_total
    [] view.script = "saving_fdr" -> view.total_deposited_amount
    [] view.script = "test_02" -> view.sum_loan_amount
    [] view.script = "test_03" -> view.total_loan_month
    [] view.script = "test_04" -> view.total_loan
    [] view.script = "test_05" -> view.Total_Outstanding

\* the page is a dashboard over every row of the frame
Unfiltered == Complete /\ DataIdx = DOMAIN frame.rows

\* C28: with a memoized loader a pass shows the aggregates of the content
\* read at the first successful load of the session: after the file was
\* overwritten under its name the pass reads nothing and still shows the
\* values of the old content, while test_05.py, whose loader is not
\* memoized, reads the file on every pass and shows the new content.
C28_Stale ==
  [][Pass =>
       /\ (load_is_cached(script) /\ cache.hit /\ cache.val.ok) =>
            /\ reads' = reads /\ disk'.read = disk.read /\ cache' = cache
            /\ frame' = cache.val
            /\ Unfiltered' => ShownTotal(out'.view) = ContentTotal(disk.read)
       /\ (script = "test_05" /\ file.exists) =>
            /\ reads' = reads + 1 /\ disk'.read = file
            /\ Unfiltered' /\ ShownTotal(out'.view) = ContentTotal(file)]_vars

\* a pass of a script with a memoized loader that found the overwritten file
\* and showed the total of the edition loaded before
C28_Witness ==
  /\ load_is_cached(script) /\ renders >= 2
  /\ file.exists /\ disk.seen = file
  /\ disk.read.exists /\ disk.read # file
  /\ ContentTotal(disk.read) # ContentTotal(file)
  /\ Unfiltered
  /\ ShownTotal(out.view) = ContentTotal(disk.read)

\* a test_05.py pass that showed the total of the new edition
C28_Fresh ==
  /\ script = "test_05" /\ renders >= 2 /\ reads >= 2
  /\ first.frame.ok /\ Unfiltered
  /\ disk.read = file
  /\ ShownTotal(out.view) = ContentTotal(file)
  /\ ShownTotal(out.view) # ShownTotal(first.out.view)

====
